---- MODULE Spec2Model ----
(***************************************************************************)
(* TradingView-to-OANDA webhook server: server.py (webhook, translate,     *)
(* post_data_to_oanda_parameters), oanda.py (calculate_units, open/close   *)
(* position, price precision snapshot), discord_webhook.py and             *)
(* gspread_logging.py.                                                     *)
(*                                                                         *)
(* Numbers.  Prices are integers counted in ticks of 1/PriceScale, so      *)
(* 1.0000 is 10000.  Balances are whole currency units, risk_percent is a  *)
(* whole percentage.  Quotients the code computes in floating point are    *)
(* kept exact as fractions [n, d]; int() is truncation toward zero.        *)
(* None is the Python None of an optional argument or of dict.get().       *)
(***************************************************************************)
EXTENDS Integers, Sequences, FiniteSets, TLC

\* ------------------------------------------------------------------ bounds

\* Concurrent requests of the concurrency specification.
NReq == 2
\* Largest pip multiple used for the stop and target distances of SpecSizing.
MaxDist == 3

\* --------------------------------------------------------------- constants

\* Ticks per price unit: the reciprocal of the 0.0001 pip size.
PriceScale == 10000
\* risk_percent=1.0 as passed by server.py to calculate_units.
ServerRiskPercent == 1
\* Default risk_percent of open_long_position / open_short_position.
OpenDefaultRiskPercent == 1
\* Default risk_percent of calculate_units.
CalcDefaultRiskPercent == 100
\* HTTP status codes raised by server.py.
BadRequest == 400
Forbidden == 403
ServerError == 500
OK == 200

\* Python None where a number is optional (a missing JSON key, an omitted argument).
None == 0 - 1

\* ----------------------------------------------------------------- helpers

Abs(x) == IF x < 0 THEN -x ELSE x

\* Python int(n / d) for d # 0: truncation toward zero.
Trunc(n, d) ==
    LET q == Abs(n) \div Abs(d)
    IN  IF (n < 0) = (d < 0) THEN q ELSE -q

\* Exact fractions [n, d] in lowest terms with d > 0; d = 0 encodes None.
RECURSIVE GCD(_, _)
GCD(a, b) == IF b = 0 THEN a ELSE GCD(b, a % b)
Reduce(n, d, g) ==
    IF d < 0 THEN [n |-> -(n \div g), d |-> (-d) \div g] ELSE [n |-> n \div g, d |-> d \div g]
Frac(n, d) == Reduce(n, d, GCD(Abs(n), Abs(d)))
NoneRat == [n |-> 0, d |-> 0]
FromInt(i) == [n |-> i, d |-> 1]
\* a * b and a / b, cancelling across before multiplying.
MulReduced(x, y) == Frac(x.n * y.n, x.d * y.d)
Mul(a, b) == MulReduced(Frac(a.n, b.d), Frac(b.n, a.d))
Div(a, b) == MulReduced(Frac(a.n, b.n), Frac(b.d, a.d))
\* int(a)
TruncRat(a) == Trunc(a.n, a.d)

\* Python truthiness of an optional number: None and 0 are false.
Truthy(x) == x # None /\ x # 0

\* "JPY" in s
ContainsJPY(s) == \E i \in 1..(Len(s) - 2) : SubSeq(s, i, i + 2) = "JPY"

\* s.split("_"): positions of the separators, and the pieces around them.
UnderscoreAt(s) == {i \in 1..Len(s) : SubSeq(s, i, i) = "_"}
SplitSecond(s) ==
    LET us   == UnderscoreAt(s)
        f    == CHOOSE i \in us : \A j \in us : i <= j
        rest == {j \in us : j > f}
        e    == IF rest = {} THEN Len(s) + 1
                ELSE CHOOSE i \in rest : \A j \in rest : i <= j
    IN  SubSeq(s, f + 1, e - 1)

\* ------------------------------------------------ binary64 (Python float)

\* Naturals of any size as sequences of limbs, least significant first,
\* without leading zero limbs (0 is <<>>).
LimbBits == 3 * 5
Limb == 2 ^ LimbBits

RECURSIVE BigNorm(_)
BigNorm(a) == IF a = <<>> THEN a
              ELSE IF a[Len(a)] = 0 THEN BigNorm(SubSeq(a, 1, Len(a) - 1)) ELSE a

RECURSIVE BigFromInt(_)
BigFromInt(n) == IF n = 0 THEN <<>> ELSE <<n % Limb>> \o BigFromInt(n \div Limb)

RECURSIVE BigToInt(_)
BigToInt(a) == IF a = <<>> THEN 0 ELSE a[1] + Limb * BigToInt(Tail(a))

\* -1, 0, 1 as a < b, a = b, a > b.
RECURSIVE BigCmpFrom(_, _, _)
BigCmpFrom(a, b, i) ==
    IF i = 0 THEN 0
    ELSE IF a[i] < b[i] THEN 0 - 1
    ELSE IF a[i] > b[i] THEN 1
    ELSE BigCmpFrom(a, b, i - 1)
BigCmp(a, b) ==
    IF Len(a) < Len(b) THEN 0 - 1
    ELSE IF Len(a) > Len(b) THEN 1
    ELSE BigCmpFrom(a, b, Len(a))

BigLimb(a, i) == IF i <= Len(a) THEN a[i] ELSE 0

RECURSIVE BigAddFrom(_, _, _, _)
BigAddFrom(a, b, i, carry) ==
    IF i > Len(a) /\ i > Len(b)
    THEN IF carry = 0 THEN <<>> ELSE <<carry>>
    ELSE <<(BigLimb(a, i) + BigLimb(b, i) + carry) % Limb>>
         \o BigAddFrom(a, b, i + 1, (BigLimb(a, i) + BigLimb(b, i) + carry) \div Limb)
BigAdd(a, b) == BigAddFrom(a, b, 1, 0)

\* a - b for a >= b.
RECURSIVE BigSubFrom(_, _, _, _)
BigSubFrom(a, b, i, borrow) ==
    IF i > Len(a) THEN <<>>
    ELSE <<(a[i] - BigLimb(b, i) - borrow + Limb) % Limb>>
         \o BigSubFrom(a, b, i + 1, IF a[i] - BigLimb(b, i) - borrow < 0 THEN 1 ELSE 0)
BigSub(a, b) == BigNorm(BigSubFrom(a, b, 1, 0))

\* a * k for 0 <= k < Limb.
RECURSIVE BigMulSmallFrom(_, _, _, _)
BigMulSmallFrom(a, k, i, carry) ==
    IF i > Len(a) THEN IF carry = 0 THEN <<>> ELSE <<carry>>
    ELSE <<(a[i] * k + carry) % Limb>>
         \o BigMulSmallFrom(a, k, i + 1, (a[i] * k + carry) \div Limb)
BigMulSmall(a, k) == BigNorm(BigMulSmallFrom(a, k, 1, 0))

RECURSIVE BigMul(_, _)
BigMul(a, b) ==
    IF a = <<>> \/ b = <<>> THEN <<>>
    ELSE BigAdd(BigMulSmall(a, b[1]),
                IF Len(b) = 1 THEN <<>> ELSE <<0>> \o BigMul(a, Tail(b)))

\* floor(a / k) for 0 < k < Limb, from the top limb down.
RECURSIVE BigDivSmallFrom(_, _, _, _)
BigDivSmallFrom(a, k, i, rem) ==
    IF i = 0 THEN <<>>
    ELSE BigDivSmallFrom(a, k, i - 1, (rem * Limb + a[i]) % k)
         \o <<(rem * Limb + a[i]) \div k>>
BigDivSmall(a, k) == BigNorm(BigDivSmallFrom(a, k, Len(a), 0))

RECURSIVE SmallBitLen(_)
SmallBitLen(n) == IF n = 0 THEN 0 ELSE 1 + SmallBitLen(n \div 2)
BigBitLen(a) == IF a = <<>> THEN 0 ELSE LimbBits * (Len(a) - 1) + SmallBitLen(a[Len(a)])

BigZeros(n) == [i \in 1..n |-> 0]
\* a * 2^n and floor(a / 2^n).
BigShl(a, n) ==
    IF a = <<>> THEN a
    ELSE BigZeros(n \div LimbBits) \o BigMulSmall(a, 2 ^ (n % LimbBits))
BigShr(a, n) ==
    IF n \div LimbBits >= Len(a) THEN <<>>
    ELSE BigDivSmall(SubSeq(a, n \div LimbBits + 1, Len(a)), 2 ^ (n % LimbBits))

BigBit(a, i) == (BigLimb(a, i \div LimbBits + 1) \div (2 ^ (i % LimbBits))) % 2

\* The largest k in lo..hi with b * k <= r, given b * lo <= r.
RECURSIVE BigDigit(_, _, _, _)
BigDigit(r, b, lo, hi) ==
    IF lo = hi THEN lo
    ELSE IF BigCmp(BigMulSmall(b, (lo + hi + 1) \div 2), r) <= 0
    THEN BigDigit(r, b, (lo + hi + 1) \div 2, hi)
    ELSE BigDigit(r, b, lo, (lo + hi + 1) \div 2 - 1)

\* Long division for b # 0, one limb of a at a time from limb i down: [q, r].
RECURSIVE BigDivModFrom(_, _, _, _, _)
BigDivModDigit(a, b, i, q, r, k) ==
    BigDivModFrom(a, b, i - 1, <<k>> \o q, BigSub(r, BigMulSmall(b, k)))
BigDivModStep(a, b, i, q, r) == BigDivModDigit(a, b, i, q, r, BigDigit(r, b, 0, Limb - 1))
BigDivModFrom(a, b, i, q, r) ==
    IF i = 0 THEN [q |-> BigNorm(q), r |-> r]
    ELSE BigDivModStep(a, b, i, q, BigNorm(<<a[i]>> \o r))
BigDivMod(a, b) == BigDivModFrom(a, b, Len(a), <<>>, <<>>)

\* A positive binary64 number m * 2^e with a mantissa m of MantissaBits bits;
\* 0 is [m |-> <<>>, e |-> 0].
MantissaBits == 52 + 1
Float(m, e) == [m |-> m, e |-> e]
FloatZero == Float(<<>>, 0)

\* The mantissa q (of MantissaBits bits or one more after a carry) at exponent e.
FloatCarry(q, e) ==
    IF BigBitLen(q) > MantissaBits THEN Float(BigShr(q, 1), e + 1) ELSE Float(q, e)

\* n * 2^e (and a little more when sticky) rounded to the nearest binary64,
\* ties to even; s is the number of bits dropped.
FloatRoundDrop(n, e, sticky, s, q) ==
    IF \/ BigCmp(BigSub(n, BigShl(q, s)), BigShl(<<1>>, s - 1)) > 0
       \/ /\ BigCmp(BigSub(n, BigShl(q, s)), BigShl(<<1>>, s - 1)) = 0
          /\ (sticky \/ BigBit(q, 0) = 1)
    THEN FloatCarry(BigAdd(q, <<1>>), e + s)
    ELSE Float(q, e + s)
FloatRound(n, e, sticky) ==
    IF n = <<>> THEN FloatZero
    ELSE IF BigBitLen(n) <= MantissaBits
    THEN Float(BigShl(n, MantissaBits - BigBitLen(n)), e - (MantissaBits - BigBitLen(n)))
    ELSE FloatRoundDrop(n, e, sticky, BigBitLen(n) - MantissaBits,
                        BigShr(n, BigBitLen(n) - MantissaBits))

FloatFromInt(i) == FloatRound(BigFromInt(i), 0, FALSE)
FloatMul(x, y) == FloatRound(BigMul(x.m, y.m), x.e + y.e, FALSE)
\* x / y for y # 0: a quotient of MantissaBits + 3 bits or more, and whether
\* the division left a remainder.
FloatDivRounded(dm, e) == FloatRound(dm.q, e, dm.r # <<>>)
FloatDiv(x, y) ==
    IF x.m = <<>> THEN FloatZero
    ELSE FloatDivRounded(BigDivMod(BigShl(x.m, MantissaBits + 3), y.m),
                         x.e - y.e - (MantissaBits + 3))
\* The mantissa of x at the exponent e <= x.e.
FloatAt(x, e) == BigShl(x.m, x.e - e)
FloatMinExp(x, y) == IF x.m = <<>> THEN y.e ELSE IF y.m = <<>> THEN x.e
                     ELSE IF x.e < y.e THEN x.e ELSE y.e
FloatCmp(x, y) == BigCmp(FloatAt(x, FloatMinExp(x, y)), FloatAt(y, FloatMinExp(x, y)))
FloatAdd(x, y) ==
    FloatRound(BigAdd(FloatAt(x, FloatMinExp(x, y)), FloatAt(y, FloatMinExp(x, y))),
               FloatMinExp(x, y), FALSE)
\* abs(x - y)
FloatAbsDiff(x, y) ==
    IF FloatCmp(x, y) >= 0
    THEN FloatRound(BigSub(FloatAt(x, FloatMinExp(x, y)), FloatAt(y, FloatMinExp(x, y))),
                    FloatMinExp(x, y), FALSE)
    ELSE FloatRound(BigSub(FloatAt(y, FloatMinExp(x, y)), FloatAt(x, FloatMinExp(x, y))),
                    FloatMinExp(x, y), FALSE)
\* int(x) for x >= 0
FloatTrunc(x) ==
    IF x.m = <<>> THEN 0
    ELSE IF x.e >= 0 THEN BigToInt(BigShl(x.m, x.e))
    ELSE BigToInt(BigShr(x.m, 0 - x.e))

\* ------------------------------------------------------------ server.py data

SUPPORTED_PAIRS ==
    {"EUR_USD", "GBP_USD", "USD_JPY", "JPY_USD", "AUD_USD", "USD_CAD", "NZD_USD",
     "USD_CHF", "EUR_GBP", "EUR_JPY", "GBP_JPY", "XAU_USD", "XAG_USD", "BTC_USD",
     "ETH_USD"}

\* translate: the instrument built from a ticker (line 101).
TranslateInstrumentSplitAtFour(ticker) ==
    SubSeq(ticker, 1, 4) \o "_" \o SubSeq(ticker, 5, Len(ticker))
TranslateInstrument(ticker) == SubSeq(ticker, 1, 3) \o "_" \o SubSeq(ticker, 4, Len(ticker))

\* translate: [err, instrument]; "" is a missing (or empty) ticker.
translateAnySixCharacters(ticker) ==
    IF ticker = "" \/ Len(ticker) # 6
    THEN [err |-> "InvalidTicker", instrument |-> ""]
    ELSE [err |-> "", instrument |-> TranslateInstrument(ticker)]
translate(ticker) ==
    IF ticker = "" \/ Len(ticker) # 6
    THEN [err |-> "InvalidTicker", instrument |-> ""]
    ELSE IF TranslateInstrument(ticker) \notin SUPPORTED_PAIRS
         THEN [err |-> "UnsupportedTicker", instrument |-> TranslateInstrument(ticker)]
         ELSE [err |-> "", instrument |-> TranslateInstrument(ticker)]

\* ------------------------------------------------------------- oanda.py data

\* One request to the broker's REST API: the endpoint, the account's mode and
\* the instrument named in the URL, the query or the body ("" when none is).
Call(endpoint, trading_type, instrument) ==
    [endpoint |-> endpoint, trading_type |-> trading_type, instrument |-> instrument]

\* A broker reply to GET /v3/accounts/{id}: ok = FALSE is a network error or a
\* non-2xx status; currency "" is a reply without the currency field.
AccountReply(ok, balance, mrn, mrd, currency) ==
    [ok |-> ok, balance |-> balance, mrn |-> mrn, mrd |-> mrd, currency |-> currency]

\* get_account_balance on a reply: [err, balance, leverage, currency].
get_account_balance(reply) ==
    LET fail(e) == [err |-> e, balance |-> 0, leverage |-> 0, currency |-> ""]
    IN  IF ~reply.ok THEN fail("UpstreamError")
        ELSE IF reply.mrn = 0 THEN fail("ZeroDivisionError")
        ELSE IF reply.currency = "" THEN fail("ValueError")
        ELSE [err |-> "", balance |-> reply.balance,
              leverage |-> Trunc(reply.mrd, reply.mrn), currency |-> reply.currency]

\* A broker reply to GET pricing: prices is a sequence of [instrument, bid, ask].
PricingReply(ok, prices) == [ok |-> ok, prices |-> prices]

\* Lines 511-512: the pricing entries of a reply that are for the pair, and
\* the first of them.
EntriesFor(pricing, pair) ==
    {i \in 1..Len(pricing.prices) : pricing.prices[i].instrument = pair}
FirstEntryFor(pricing, pair) ==
    pricing.prices[CHOOSE i \in EntriesFor(pricing, pair) : \A j \in EntriesFor(pricing, pair) : i <= j]

\* Lines 512-514: the average of the first bid and the first ask of an entry
\* (bid and ask are bids[0].price and asks[0].price, in ticks).
MidPointAskOnly(bid, ask) == Frac(ask, PriceScale)
MidPointBidOnly(bid, ask) == Frac(bid, PriceScale)
MidPoint(bid, ask) == Frac(bid + ask, 2 * PriceScale)

\* get_accountcurrency_exchange_rate: [err, rate, calls].  The account is
\* fetched again for its currency; the handler of line 521 formats
\* account_currency, which is unbound when that fetch failed.
get_accountcurrency_exchange_rate(quote_currency, trading_type, acctReply, pricing) ==
    LET account_data == get_account_balance(acctReply)
        instrument == account_data.currency \o "_" \o quote_currency
        account == Call("account", trading_type, "")
        prices == Call("pricing", trading_type, instrument)
        hits == {i \in 1..Len(pricing.prices) : pricing.prices[i].instrument = instrument}
        first == CHOOSE i \in hits : \A j \in hits : i <= j
    IN  IF account_data.err # ""
        THEN [err |-> "UnboundLocalError", rate |-> NoneRat, calls |-> <<account>>]
        ELSE IF ~pricing.ok
        THEN [err |-> "UpstreamError", rate |-> NoneRat, calls |-> <<account, prices>>]
        ELSE IF hits = {}
        THEN [err |-> "InstrumentNotFound", rate |-> NoneRat, calls |-> <<account, prices>>]
        ELSE [err |-> "",
              rate |-> MidPoint(pricing.prices[first].bid, pricing.prices[first].ask),
              calls |-> <<account, prices>>]

\* A price given in ticks, as a number.
Price(ticks) == Frac(ticks, PriceScale)

\* The pip size of line 414.
pip_value(instrument) == IF ~ContainsJPY(instrument) THEN Frac(1, 10000) ELSE Frac(1, 100)

\* Lines 417-418: abs(a - b) / pip_value when the optional price is given
\* (and not 0), else None.
PipDistance(optional, a, b, pip) ==
    IF Truthy(optional) THEN Div(Price(Abs(a - b)), pip) ELSE NoneRat

NoDetails ==
    [units |-> 0, margin |-> NoneRat, pip_value |-> NoneRat, trade_value |-> NoneRat,
     reward |-> NoneRat, risk |-> NoneRat,
     account_balance_converted |-> NoneRat, account_balance_original |-> 0]

\* Line 424: int(risk_amount / (stop_loss_distance * pip_value)), or 0.
UnitsPerPip(risk_amount, stop_loss_distance, pip) ==
    IF stop_loss_distance.n # 0 THEN TruncRat(Div(risk_amount, stop_loss_distance)) ELSE 0
Units(risk_amount, stop_loss_distance, pip) ==
    IF stop_loss_distance.n # 0
    THEN TruncRat(Div(risk_amount, Mul(stop_loss_distance, pip)))
    ELSE 0

\* Lines 433 and 436: distance * pip_value * units / account_balance_converted * 100.
Percentage(distance, pip, units, abc) ==
    IF distance.d = 0 THEN NoneRat
    ELSE Mul(Div(Mul(Mul(distance, pip), FromInt(units)), abc), FromInt(100))

\* The same lines in binary64, as Python computes them.  A price of the
\* payload or of a pricing entry is the float nearest to its decimal.
FloatPrice(ticks) == FloatDiv(FloatFromInt(ticks), FloatFromInt(PriceScale))

\* Lines 513-515: (float(bid) + float(ask)) / 2.
FloatMidPoint(bid, ask) == FloatDiv(FloatAdd(FloatPrice(bid), FloatPrice(ask)), FloatFromInt(2))

\* Line 414: the literals 0.0001 and 0.01.
FloatPipValue(instrument) ==
    IF ~ContainsJPY(instrument) THEN FloatDiv(FloatFromInt(1), FloatFromInt(10000))
    ELSE FloatDiv(FloatFromInt(1), FloatFromInt(100))

\* Line 424: int(risk_amount / (stop_loss_distance * pip_value)), or 0 when
\* the distance is 0.0; stop is stop_loss_distance * pip_value.
FloatUnitsRoundedUp(risk_amount, stop) ==
    IF stop.m # <<>> THEN FloatTrunc(FloatDiv(risk_amount, stop)) + 1 ELSE 0
FloatUnits(risk_amount, stop) ==
    IF stop.m # <<>> THEN FloatTrunc(FloatDiv(risk_amount, stop)) ELSE 0

\* Line 436: stop_loss_distance * pip_value * units / account_balance_converted
\* * 100, from the left; exposure is stop_loss_distance * pip_value * units.
FloatPercentage(exposure, account_balance_converted) ==
    FloatMul(FloatDiv(exposure, account_balance_converted), FloatFromInt(100))

NoFloatOut == [err |-> "", units |-> 0, risk |-> FloatZero, account_balance_converted |-> FloatZero]

\* The guard of line 449.
UnitsRejectedNever(units) == FALSE
UnitsRejectedNegativeOnly(units) == units < 0
UnitsRejected(units) == units <= 0

\* Lines 426-461: the metrics of a unit count, and the guard on it.  Dividing
\* by a leverage or a converted balance of 0 raises ZeroDivisionError.
SizingResult(units, price, pip, stop_loss_distance, take_profit_distance, bal, leverage, conv, abc) ==
    IF leverage = 0 THEN [err |-> "ZeroDivisionError", res |-> NoDetails]
    ELSE IF (take_profit_distance.d # 0 \/ stop_loss_distance.d # 0) /\ abc.n = 0
    THEN [err |-> "ZeroDivisionError", res |-> NoDetails]
    ELSE IF UnitsRejected(units) THEN [err |-> "InvalidSizing", res |-> NoDetails]
    ELSE [err |-> "",
          res |-> [units |-> units,
                   margin |-> Div(Mul(FromInt(units), Price(price)), FromInt(leverage)),
                   pip_value |-> IF conv THEN Mul(pip, FromInt(units)) ELSE pip,
                   trade_value |-> Mul(FromInt(units), Price(price)),
                   reward |-> Percentage(take_profit_distance, pip, units, abc),
                   risk |-> Percentage(stop_loss_distance, pip, units, abc),
                   account_balance_converted |-> abc,
                   account_balance_original |-> bal]]

\* Lines 417-424: the distances and the unit count.
SizingDistances(risk_amount, price, pip, stop_loss_distance, take_profit_distance, bal, leverage, conv, abc) ==
    SizingResult(Units(risk_amount, stop_loss_distance, pip), price, pip,
                 stop_loss_distance, take_profit_distance, bal, leverage, conv, abc)

\* Lines 409-461 of calculate_units, after the account (and the rate) are
\* known: [err, res].  isStr: the prices are JSON strings, not numbers, and
\* the arithmetic of line 417 on them raises TypeError.
SizingMath(instrument, price, sl, tp, risk_percent, isStr, bal, leverage, conv, abc) ==
    IF isStr THEN [err |-> "TypeError", res |-> NoDetails]
    ELSE SizingDistances(Mul(abc, Frac(risk_percent, 100)), price, pip_value(instrument),
                         PipDistance(sl, price, sl, pip_value(instrument)),
                         PipDistance(tp, tp, price, pip_value(instrument)),
                         bal, leverage, conv, abc)

\* Line 405: account_balance * exchange_rate.
ConvertBalanceUnconverted(account_balance, exchange_rate) == FromInt(account_balance)
ConvertBalance(account_balance, exchange_rate) == Mul(FromInt(account_balance), exchange_rate)

\* calculate_units once the exchange rate call has returned.
SizingConverted(instrument, price, sl, tp, risk_percent, isStr, account_data, account, ex) ==
    IF ex.err # ""
    THEN [err |-> ex.err, res |-> NoDetails, calls |-> <<account>> \o ex.calls]
    ELSE [calls |-> <<account>> \o ex.calls] @@
         SizingMath(instrument, price, sl, tp, risk_percent, isStr, account_data.balance,
                    account_data.leverage, TRUE, ConvertBalance(account_data.balance, ex.rate))

\* calculate_units once get_account_balance has returned (lines 397-407).
SizingAccount(instrument, price, sl, tp, risk_percent, trading_type, isStr, account_data, account, acct2, pricing) ==
    IF account_data.err # ""
    THEN [err |-> account_data.err, res |-> NoDetails, calls |-> <<account>>]
    ELSE IF SplitSecond(instrument) # account_data.currency
    THEN SizingConverted(instrument, price, sl, tp, risk_percent, isStr, account_data, account,
             get_accountcurrency_exchange_rate(SplitSecond(instrument), trading_type, acct2, pricing))
    ELSE [calls |-> <<account>>] @@
         SizingMath(instrument, price, sl, tp, risk_percent, isStr, account_data.balance,
                    account_data.leverage, FALSE, FromInt(account_data.balance))

\* calculate_units: [err, res, calls].  acct, acct2 and pricing are the
\* broker's replies to the calls it makes, in order.
calculate_units(instrument, price, sl, tp, risk_percent, trading_type, isStr, acct, acct2, pricing) ==
    SizingAccount(instrument, price, sl, tp, risk_percent, trading_type, isStr,
                  get_account_balance(acct), Call("account", trading_type, ""), acct2, pricing)

\* check_any_position_open (line 604) and check_position_open (lines 577-579)
\* on the broker's list of open positions.
check_any_position_open(positions_data) == positions_data # {}
check_position_open(positions_data, instrument) == instrument \in positions_data

\* The guard of open_long_position / open_short_position, lines 181 and 282.
PositionGuardByInstrument(positions_data, instrument) ==
    check_position_open(positions_data, instrument)
PositionGuard(positions_data, instrument) == check_any_position_open(positions_data)

\* The displayPrecision the broker lists for an instrument.
DisplayPrecision(instrument) == IF SplitSecond(instrument) = "JPY" THEN 3 ELSE 5

\* f"{price:.{price_decimals}f}": the price rounded to price_decimals places,
\* in ticks, with the number of places printed.
FormatPrice(price, price_decimals) ==
    LET step == IF price_decimals >= 4 THEN 1
                ELSE IF price_decimals = 3 THEN 10
                ELSE IF price_decimals = 2 THEN 100
                ELSE IF price_decimals = 1 THEN 1000 ELSE 10000
        lo   == (price \div step) * step
        rem  == price - lo
        even == (lo \div step) % 2 = 0
        v    == IF 2 * rem < step \/ (2 * rem = step /\ even) THEN lo ELSE lo + step
    IN  [ticks |-> v, decimals |-> price_decimals]

NoPayload == [instrument |-> "", units |-> 0,
              stopLossOnFill |-> FormatPrice(0, 0), takeProfitOnFill |-> FormatPrice(0, 0)]

\* The sign of the order's units: line 193 (long) and line 294 (short).
OrderUnitsUnsigned(action, units) == units
OrderUnits(action, units) == IF action = "open_short" THEN -units ELSE units

\* The order payload of lines 200-213 and 301-314.
OrderPayload(action, instrument, units, sl, tp, price_decimals) ==
    [instrument |-> instrument, units |-> OrderUnits(action, units),
     stopLossOnFill |-> FormatPrice(sl, price_decimals),
     takeProfitOnFill |-> FormatPrice(tp, price_decimals)]

\* The value of line 218 (and 319): a status and a message.  payloads lists
\* the order payloads the returned value holds: the dict of line 218 holds
\* none, the payload goes to the server log (line 216).
NoReturn == [status |-> "", message |-> "", payloads |-> <<>>]
DebugReturnEchoingPayload(payload) ==
    [status |-> "debug", message |-> "Order logged to server.log", payloads |-> <<payload>>]
DebugReturn(payload) ==
    [status |-> "debug", message |-> "Order logged to server.log", payloads |-> <<>>]

\* -------------------------------------------------------------------- state

VARIABLES
    DEBUG_MODE,   \* oanda.py: orders are logged instead of sent
    positions,    \* broker: per trading type, the instruments with an open position
    snapshot,     \* price_precisions.json: the names it maps, the trading type it was fetched for
    req,          \* per request: the webhook coroutine's position and locals
    cu            \* one direct invocation of calculate_units: arguments, replies, outcome

vars == <<DEBUG_MODE, positions, snapshot, req, cu>>

\* The snapshot file: the instrument names of the mapping written to it and
\* the trading type whose instrument list it was taken from; NoSnapshot is no file.
Snapshot(trading_type, names) == [mode |-> trading_type, names |-> names]
NoSnapshot == Snapshot("", {})

Reqs == 1..NReq
TradingTypes == {"practice", "live"}
Absent == "<absent>"

OpenActions == {"open_long", "open_short"}
CloseActions == {"close_long", "close_short"}

\* TRADINGVIEW_IPS (first entry) and an address outside the list.
TRADINGVIEW_IPS == {"52.89.214.238", "34.212.75.30", "54.218.53.128", "52.32.178.7"}
AllowedIp == "52.89.214.238"
OtherIp == "10.0.0.1"

\* request.headers.get("X-Real-IP") or request.headers.get("X-Forwarded-For");
\* "" is a header that is not sent.
ClientIp(http) == IF http.real # "" THEN http.real ELSE http.fwd

NoRow == [written |-> FALSE, action |-> "", instrument |-> "", units |-> None,
          status |-> "", balance |-> 0, details |-> NoDetails, logged |-> ""]

IdleReq ==
    [pc |-> "idle",
     http |-> [token |-> FALSE, real |-> "", fwd |-> ""],
     body |-> [json |-> "", id |-> FALSE, ticker |-> "", action |-> Absent,
               price |-> None, stop_loss_price |-> None, take_profit_price |-> None,
               isStr |-> FALSE, trading_type |-> Absent, risk_percent |-> None],
     instrument |-> "",          \* post_data["instrument"]
     invoked |-> <<>>,           \* the calls post_data_to_oanda_parameters made: [fn, arg]
     prep_details |-> NoDetails, \* trade_details of post_data_to_oanda_parameters (line 132)
     params |-> NoDetails,       \* translated_data once the sizing is merged in (line 140)
     trade_details |-> NoDetails,\* webhook's trade_details (lines 290, 345)
     param_units |-> None,       \* oanda_parameters["units"] (lines 298, 353)
     open_details |-> NoDetails, \* trade_details of open_*_position (lines 185, 286)
     positions_data |-> <<>>,    \* <<the open positions the broker listed>>, once it has
     instruments |-> {},         \* the instrument list save_price_precisions fetched
     price_precisions |-> {},    \* the instruments of the mapping get_price_precisions returned
     payload |-> NoPayload,      \* the order built by open_*_position
     order_response |-> "",      \* "", "debug" (sentinel) or "broker"
     debug_return |-> NoReturn,  \* the value open_*_position returned under DEBUG_MODE
     server_log |-> <<>>,        \* the order payloads written to server.log (lines 216, 220)
     calls |-> <<>>,             \* requests sent to the broker, in order
     err |-> "",                 \* the exception that ended the request, if any
     site |-> "",                \* which send_discord_alert call is next
     pending |-> 0,              \* the status the handler is about to answer
     alert |-> "",               \* how the alert delivery ended
     row |-> NoRow,              \* the row handed to log_trade
     status |-> 0]               \* the HTTP status answered; 0 while in flight

\* raise HTTPException(status) with no alert: the request is answered.
Respond(q, status) == [q EXCEPT !.pc = "done", !.status = status]

\* An exception caught by one of webhook's handlers, which alerts and then
\* answers `status`: lines 249-257 ("json"), 274-282 ("data"), 400-408 ("order").
DataErrorStatus == BadRequest
OrderErrorStatus == ServerError
Raise(q, e, site) ==
    [q EXCEPT !.pc = "alert", !.err = e, !.site = site,
              !.pending = IF site = "order" THEN OrderErrorStatus ELSE DataErrorStatus]

\* --------------------------------------------------------- broker replies

Balances == {1, 1000, 2000}
AccountReplies ==
    {AccountReply(FALSE, 0, 0, 1, "")}
    \cup {AccountReply(TRUE, b, 1, 30, "GBP") : b \in Balances}
MidRates == <<[instrument |-> "GBP_JPY", bid |-> 12499, ask |-> 12501],
              [instrument |-> "GBP_USD", bid |-> 12499, ask |-> 12501]>>
PricingReplies == {PricingReply(FALSE, <<>>), PricingReply(TRUE, <<>>), PricingReply(TRUE, MidRates)}

\* The instruments the broker lists, and its replies to GET instruments: a
\* failure, the whole list, a list of one.
AllInstruments == SUPPORTED_PAIRS
InstrumentsReply(ok, names) == [ok |-> ok, names |-> names]
FullList == InstrumentsReply(TRUE, AllInstruments)
InstrumentReplies == {InstrumentsReply(FALSE, {}), FullList, InstrumentsReply(TRUE, {"EUR_USD"})}

\* ------------------------------------------------------------------ webhook

\* RestrictAccessMiddleware.dispatch for a /webhook/{token} path: the status
\* it answers, or 0 when it calls the endpoint.
dispatch(http) ==
    IF ClientIp(http) = "" \/ ClientIp(http) \notin TRADINGVIEW_IPS THEN Forbidden ELSE 0

\* webhook, lines 224-239: the token and client address checks.
webhook_accessAnyToken(http) ==
    IF ClientIp(http) = "" THEN BadRequest
    ELSE IF ClientIp(http) \notin TRADINGVIEW_IPS THEN Forbidden
    ELSE 0
webhook_access(http) ==
    IF ~http.token THEN Forbidden
    ELSE IF ClientIp(http) = "" THEN BadRequest
    ELSE IF ClientIp(http) \notin TRADINGVIEW_IPS THEN Forbidden
    ELSE 0

\* A call of one of the functions post_data_to_oanda_parameters uses.
Invocation(fn, arg) == [fn |-> fn, arg |-> arg]

\* translated_data.get("trading_type", "practice"), line 138.
PrepTradingTypeRaw(b) == b.trading_type
PrepTradingType(b) == IF b.trading_type = Absent THEN "practice" ELSE b.trading_type

\* The keyword arguments of lines 132-139: the prices go through float(), so a
\* price sent as a JSON string arrives as a number.
CalcArgs(q) ==
    [instrument |-> q.instrument, price |-> q.body.price,
     stop_loss_price |-> q.body.stop_loss_price,
     take_profit_price |-> q.body.take_profit_price, isStr |-> FALSE,
     risk_percent |-> ServerRiskPercent, trading_type |-> PrepTradingType(q.body)]

\* dict.update: the entries of other, then those of d under the other keys.
dict_update_units_only(d, other) ==
    [k \in DOMAIN d \cup DOMAIN other |->
        IF k = "units" THEN other[k] ELSE IF k \in DOMAIN d THEN d[k] ELSE NoneRat]
dict_update(d, other) ==
    [k \in DOMAIN d \cup DOMAIN other |-> IF k \in DOMAIN other THEN other[k] ELSE d[k]]

\* translated_data, as far as the sizing touches it: the instrument.
TranslatedData(q) == [instrument |-> q.instrument]

\* The required fields of an open action (line 120).
MissingOpenFieldsStopOnly(b) == b.stop_loss_price = None
MissingOpenFields(b) ==
    b.stop_loss_price = None \/ b.take_profit_price = None \/ b.price = None

\* float(post_data["price"]) and the like (lines 134-136) on a missing key.
FloatKeyError(b) ==
    b.price = None \/ b.stop_loss_price = None \/ b.take_profit_price = None

\* webhook, lines 286-399, up to its first await: entered once
\* post_data_to_oanda_parameters has returned.
PlaceOrder(q) ==
    LET b == q.body
    IN  IF b.action \in OpenActions
        THEN IF b.trading_type = Absent THEN Raise(q, "KeyError", "order")
             ELSE [q EXCEPT !.pc = "web_calc"]
        ELSE IF b.action \in CloseActions
        THEN IF b.trading_type = Absent THEN Raise(q, "KeyError", "order")
             ELSE IF DEBUG_MODE
             THEN [q EXCEPT !.pc = "ledger_account", !.order_response = "debug"]
             ELSE [q EXCEPT !.pc = "put_close"]
        ELSE Raise(q, "ValueError", "order")

\* post_data_to_oanda_parameters, lines 116-139, up to its first await.
post_data_to_oanda_parametersSizingCloses(q) ==
    LET b  == q.body
        tr == translate(b.ticker)
        q1 == [q EXCEPT !.instrument = tr.instrument,
                        !.invoked = <<Invocation("translate", b)>>]
    IN  IF tr.err # "" THEN Raise(q1, tr.err, "data")
        ELSE IF b.action = Absent THEN Raise(q1, "KeyError", "data")
        ELSE IF b.action \in OpenActions /\ MissingOpenFields(b)
        THEN Raise(q1, "MissingParameters", "data")
        ELSE IF FloatKeyError(b) THEN Raise(q1, "KeyError", "data")
        ELSE [q1 EXCEPT !.pc = "prep_calc"]
post_data_to_oanda_parameters(q) ==
    LET b  == q.body
        tr == translate(b.ticker)
        q1 == [q EXCEPT !.instrument = tr.instrument,
                        !.invoked = <<Invocation("translate", b)>>]
    IN  IF tr.err # "" THEN Raise(q1, tr.err, "data")
        ELSE IF b.action = Absent THEN Raise(q1, "KeyError", "data")
        ELSE IF b.action \in OpenActions /\ MissingOpenFields(b)
        THEN Raise(q1, "MissingParameters", "data")
        ELSE IF b.action \in CloseActions THEN PlaceOrder(q1)
        ELSE IF FloatKeyError(b) THEN Raise(q1, "KeyError", "data")
        ELSE [q1 EXCEPT !.pc = "prep_calc"]

\* The middleware and webhook lines 210-273: a request arrives and runs to
\* its first await (or to its answer).
Receive(r, http, body) ==
    /\ req[r].pc = "idle"
    /\ LET q == [req[r] EXCEPT !.http = http, !.body = body]
       IN  req' = [req EXCEPT ![r] =
                IF dispatch(http) # 0 THEN Respond(q, dispatch(http))
                ELSE IF webhook_access(http) # 0 THEN Respond(q, webhook_access(http))
                ELSE IF body.json # "ok" THEN Raise(q, "JSONDecodeError", "json")
                ELSE IF ~body.id THEN Respond(q, BadRequest)
                ELSE post_data_to_oanda_parameters(q)]
    /\ UNCHANGED <<DEBUG_MODE, positions, snapshot, cu>>

\* post_data_to_oanda_parameters, lines 131-145: the sizing of the signal's
\* float()ed prices, merged into the parameters; any exception becomes a 400.
PrepSized(q, c) ==
    IF c.err # "" THEN Raise([q EXCEPT !.calls = @ \o c.calls], c.err, "data")
    ELSE PlaceOrder([q EXCEPT !.calls = @ \o c.calls, !.prep_details = c.res,
                              !.params = dict_update(TranslatedData(q), c.res)])

PrepInvoked(q, a, acct, acct2, pricing) ==
    PrepSized([q EXCEPT !.invoked = Append(@, Invocation("calculate_units", a))],
              calculate_units(a.instrument, a.price, a.stop_loss_price, a.take_profit_price,
                              a.risk_percent, a.trading_type, a.isStr, acct, acct2, pricing))

PrepCalc(r, acct, acct2, pricing) ==
    /\ req[r].pc = "prep_calc"
    /\ req' = [req EXCEPT ![r] = PrepInvoked(req[r], CalcArgs(req[r]), acct, acct2, pricing)]
    /\ UNCHANGED <<DEBUG_MODE, positions, snapshot, cu>>

\* webhook, lines 290-298 and 345-353: the sizing of the signal's raw prices.
WebSized(q, c) ==
    IF c.err # "" THEN Raise([q EXCEPT !.calls = @ \o c.calls], c.err, "order")
    ELSE [q EXCEPT !.calls = @ \o c.calls, !.trade_details = c.res,
                   !.param_units = c.res.units, !.pc = "check_open"]

WebCalc(r, acct, acct2, pricing) ==
    /\ req[r].pc = "web_calc"
    /\ req' = [req EXCEPT ![r] =
              WebSized(req[r],
                  calculate_units(req[r].instrument, req[r].body.price,
                      req[r].body.stop_loss_price, req[r].body.take_profit_price,
                      ServerRiskPercent, req[r].body.trading_type, req[r].body.isStr,
                      acct, acct2, pricing))]
    /\ UNCHANGED <<DEBUG_MODE, positions, snapshot, cu>>

\* open_long_position / open_short_position, lines 181-182 and 282-283.
CheckOpen(r, ok) ==
    /\ req[r].pc = "check_open"
    /\ LET q  == req[r]
           tt == q.body.trading_type
           q1 == [q EXCEPT !.calls = Append(@, Call("openPositions", tt, ""))]
           q2 == [q1 EXCEPT !.positions_data = <<positions[tt]>>]
       IN  req' = [req EXCEPT ![r] =
                IF ~ok THEN Raise(q1, "UpstreamError", "order")
                ELSE IF PositionGuard(positions[tt], q.instrument)
                THEN Raise(q2, "PositionAlreadyOpen", "order")
                ELSE [q2 EXCEPT !.pc = "open_calc"]]
    /\ UNCHANGED <<DEBUG_MODE, positions, snapshot, cu>>

\* open_*_position once the price precision is known: the payload, and the
\* debug return of lines 215-218 and 316-319.
BuildOrderAlwaysSent(q) ==
    [q EXCEPT !.payload = OrderPayload(q.body.action, q.instrument, q.open_details.units,
                                       q.body.stop_loss_price, q.body.take_profit_price,
                                       DisplayPrecision(q.instrument)),
              !.server_log = <<OrderPayload(q.body.action, q.instrument, q.open_details.units,
                                            q.body.stop_loss_price, q.body.take_profit_price,
                                            DisplayPrecision(q.instrument))>>,
              !.pc = "post_order"]
BuildOrder(q) ==
    LET b == q.body
        p == OrderPayload(b.action, q.instrument, q.open_details.units, b.stop_loss_price,
                          b.take_profit_price, DisplayPrecision(q.instrument))
    IN  IF DEBUG_MODE
        THEN [q EXCEPT !.payload = p, !.server_log = <<p>>, !.order_response = "debug",
                       !.debug_return = DebugReturn(p), !.pc = "ledger_account"]
        ELSE [q EXCEPT !.payload = p, !.server_log = <<p>>, !.pc = "post_order"]

\* get_price_precision, line 88: price_precisions[instrument] on the mapping
\* (given by the names it holds) the lookup returned.
Priced(q, price_precisions) ==
    IF q.instrument \notin price_precisions
    THEN Raise([q EXCEPT !.price_precisions = price_precisions], "KeyError", "order")
    ELSE BuildOrder([q EXCEPT !.price_precisions = price_precisions])

\* get_price_precisions, lines 94-97: load the snapshot when the file exists,
\* else fetch and persist.
PrecisionLookupAlwaysFetch(snap) == "get_instruments"
PrecisionLookup(snap) == IF snap # NoSnapshot THEN "load_precisions" ELSE "get_instruments"

\* Line 92: the snapshot file get_price_precisions tests and reads for a
\* trading type; the name is "price_precisions.json" for every trading type.
price_precisions_filePerMode(snap, trading_type) ==
    IF snap.mode = trading_type THEN snap ELSE NoSnapshot
price_precisions_file(snap, trading_type) == snap

\* open_*_position, lines 185-196: its own sizing (risk_percent defaulted),
\* then get_price_precisions' test for the snapshot file.
OpenSized(q, c) ==
    IF c.err # "" THEN Raise([q EXCEPT !.calls = @ \o c.calls], c.err, "order")
    ELSE [q EXCEPT !.calls = @ \o c.calls, !.open_details = c.res,
                   !.pc = PrecisionLookup(price_precisions_file(snapshot, q.body.trading_type))]

OpenCalc(r, acct, acct2, pricing) ==
    /\ req[r].pc = "open_calc"
    /\ req' = [req EXCEPT ![r] =
              OpenSized(req[r],
                  calculate_units(req[r].instrument, req[r].body.price,
                      req[r].body.stop_loss_price, req[r].body.take_profit_price,
                      OpenDefaultRiskPercent, req[r].body.trading_type, req[r].body.isStr,
                      acct, acct2, pricing))]
    /\ UNCHANGED <<DEBUG_MODE, positions, snapshot, cu>>

\* load_price_precisions, lines 112-116: a file deleted since the isfile
\* test makes open() raise FileNotFoundError.
LoadPrecisions(r) ==
    /\ req[r].pc = "load_precisions"
    /\ req' = [req EXCEPT ![r] =
            IF snapshot = NoSnapshot THEN Raise(req[r], "FileNotFoundError", "order")
            ELSE Priced(req[r], snapshot.names)]
    /\ UNCHANGED <<DEBUG_MODE, positions, snapshot, cu>>

\* save_price_precisions, line 103: get_instruments.
GetInstruments(r, reply) ==
    /\ req[r].pc = "get_instruments"
    /\ LET q1 == [req[r] EXCEPT !.calls = Append(@, Call("instruments", req[r].body.trading_type, ""))]
       IN  req' = [req EXCEPT ![r] =
                IF ~reply.ok THEN Raise(q1, "UpstreamError", "order")
                ELSE [q1 EXCEPT !.instruments = reply.names, !.pc = "write_precisions"]]
    /\ UNCHANGED <<DEBUG_MODE, positions, snapshot, cu>>

\* save_price_precisions, lines 105-110: the whole mapping is written to the
\* snapshot file and returned.
WritePrecisions(r) ==
    /\ req[r].pc = "write_precisions"
    /\ snapshot' = Snapshot(req[r].body.trading_type, req[r].instruments)
    /\ req' = [req EXCEPT ![r] = Priced(req[r], req[r].instruments)]
    /\ UNCHANGED <<DEBUG_MODE, positions, cu>>

\* The order-changing requests (order POST, position-close PUT) a request sent.
OrderChanging(q) == {i \in 1..Len(q.calls) : q.calls[i].endpoint \in {"orders", "close"}}

\* A submission that failed (network error, timeout, non-2xx): the except
\* clauses of lines 232-234 and 265-267 log and re-raise.
OrderFailedIgnored(q) == [q EXCEPT !.pc = "ledger_account"]
OrderFailedRetriedOnce(q) ==
    IF Cardinality(OrderChanging(q)) < 2 THEN q ELSE Raise(q, "UpstreamError", "order")
OrderFailed(q) == Raise(q, "UpstreamError", "order")

\* open_*_position, lines 220-231 and 321-332: POST /orders.
PostOrder(r, ok) ==
    /\ req[r].pc = "post_order"
    /\ LET q  == req[r]
           tt == q.body.trading_type
           q1 == [q EXCEPT !.calls = Append(@, Call("orders", tt, q.payload.instrument))]
       IN  /\ req' = [req EXCEPT ![r] =
                  IF ~ok THEN OrderFailed(q1)
                  ELSE [q1 EXCEPT !.order_response = "broker", !.pc = "ledger_account"]]
           /\ positions' = IF ok THEN [positions EXCEPT ![tt] = @ \cup {q.payload.instrument}]
                           ELSE positions
    /\ UNCHANGED <<DEBUG_MODE, snapshot, cu>>

\* close_long_position / close_short_position, lines 254-264 and 355-365:
\* PUT positions/{instrument}/close.  The broker rejects a close of a position
\* it does not hold.
PutClose(r, ok) ==
    /\ req[r].pc = "put_close"
    /\ LET q  == req[r]
           tt == q.body.trading_type
           q1 == [q EXCEPT !.calls = Append(@, Call("close", tt, q.instrument))]
           closed == ok /\ q.instrument \in positions[tt]
       IN  /\ req' = [req EXCEPT ![r] =
                  IF ~closed THEN OrderFailed(q1)
                  ELSE [q1 EXCEPT !.order_response = "broker", !.pc = "ledger_account"]]
           /\ positions' = IF closed THEN [positions EXCEPT ![tt] = @ \ {q.instrument}]
                           ELSE positions
    /\ UNCHANGED <<DEBUG_MODE, snapshot, cu>>

\* The row webhook hands to log_trade (lines 308-324, 331-342, 363-379, 386-397).
LedgerRow(q, balance) ==
    [written |-> TRUE, action |-> q.body.action, instrument |-> q.instrument,
     units |-> IF q.body.action \in OpenActions THEN q.param_units ELSE None,
     status |-> "success", balance |-> balance,
     details |-> IF q.body.action \in OpenActions THEN q.trade_details ELSE NoDetails,
     logged |-> ""]

\* What the spreadsheet service does for one log_trade: the key file is
\* missing, the sheet cannot be opened, the row is appended, or append_row fails.
SheetOutcomes == {"no_file", "sheet_error", "appended", "append_error"}

\* get_google_sheet: TRUE for a worksheet, FALSE for None (both except
\* clauses return None).
get_google_sheet(sheet) == sheet \in {"appended", "append_error"}

\* log_trade: [raised, row].  logged is where the row went: the sheet, the
\* local log, or only the error message of line 66.
log_trade_unguarded(row, sheet) ==
    IF get_google_sheet(sheet)
    THEN IF sheet = "append_error" THEN [raised |-> TRUE, row |-> [row EXCEPT !.logged = "error"]]
         ELSE [raised |-> FALSE, row |-> [row EXCEPT !.logged = "sheet"]]
    ELSE [raised |-> FALSE, row |-> [row EXCEPT !.logged = "local"]]
log_trade(row, sheet) ==
    IF get_google_sheet(sheet)
    THEN IF sheet = "append_error" THEN [raised |-> FALSE, row |-> [row EXCEPT !.logged = "error"]]
         ELSE [raised |-> FALSE, row |-> [row EXCEPT !.logged = "sheet"]]
    ELSE [raised |-> FALSE, row |-> [row EXCEPT !.logged = "local"]]

\* webhook after log_trade returned (or raised into the handler of line 400).
Logged(q, lt) ==
    IF lt.raised THEN Raise([q EXCEPT !.row = lt.row], "LogTradeError", "order")
    ELSE [q EXCEPT !.row = lt.row, !.pc = "alert", !.site = "ok", !.pending = OK]

\* webhook: the account balance fetched for the ledger row, then log_trade.
LedgerAccount(r, acct, sheet) ==
    /\ req[r].pc = "ledger_account"
    /\ LET q  == req[r]
           a  == get_account_balance(acct)
           q1 == [q EXCEPT !.calls = Append(@, Call("account", q.body.trading_type, ""))]
       IN  req' = [req EXCEPT ![r] =
                IF a.err # "" THEN Raise(q1, a.err, "order")
                ELSE Logged(q1, log_trade(LedgerRow(q1, a.balance), sheet))]
    /\ UNCHANGED <<DEBUG_MODE, positions, snapshot, cu>>

\* send_discord_alert: not configured, delivered, a network error (caught at
\* line 35) or a non-2xx answer (raise_for_status, not caught there).
AlertOutcomes == {"unconfigured", "sent", "RequestError", "HTTPStatusError"}

\* The status answered after an alert.  The alerts of the error handlers are
\* wrapped in try/except; the one of line 411 is not.
StatusAfterAlert(site, pending, outcome) ==
    IF site = "ok" /\ outcome = "HTTPStatusError" THEN ServerError ELSE pending

Alert(r, outcome) ==
    /\ req[r].pc = "alert"
    /\ req' = [req EXCEPT ![r] =
            [req[r] EXCEPT !.alert = outcome, !.pc = "done",
                           !.status = StatusAfterAlert(req[r].site, req[r].pending, outcome)]]
    /\ UNCHANGED <<DEBUG_MODE, positions, snapshot, cu>>

\* ------------------------------------------------------------------ inputs

Signal(json, id, ticker, action, price, sl, tp, isStr, tt, rp) ==
    [json |-> json, id |-> id, ticker |-> ticker, action |-> action, price |-> price,
     stop_loss_price |-> sl, take_profit_price |-> tp, isStr |-> isStr,
     trading_type |-> tt, risk_percent |-> rp]

\* Entry 1.0000, a stop 200 ticks below (or on the entry), a target 400 above.
EntryPrice == 1 * PriceScale
StopPrice == EntryPrice - 200
TargetPrice == EntryPrice + 400

\* Requests that are not a JSON object: a body that does not parse, an empty one.
BrokenBodies ==
    {Signal(j, FALSE, "", Absent, None, None, None, FALSE, Absent, None) :
        j \in {"invalid", "empty"}}

\* Signals that exercise validation: any ticker, any action, any subset of the
\* three prices, with or without an id.
ValidationSignals ==
    {Signal("ok", id, t, a, p, sl, tp, FALSE, "practice", None) :
        id \in BOOLEAN,
        t \in {"", "EURUS", "EURUSDX", "ABCDEF", "USDEUR", "GBPJPY", "EURUSD"},
        a \in OpenActions \cup CloseActions \cup {"hold", Absent},
        p \in {None, EntryPrice}, sl \in {None, StopPrice}, tp \in {None, TargetPrice}}

\* Well-formed open signals (and an unknown action with the same fields):
\* numeric prices, a stop on or off the entry, any trading type; then the same
\* with the prices sent as JSON strings, and with a risk_percent of 2.
OpenSignals ==
    {Signal("ok", TRUE, t, a, EntryPrice, sl, TargetPrice, FALSE, tt, None) :
        t \in {"EURUSD", "USDJPY"}, a \in OpenActions \cup {"hold"},
        sl \in {EntryPrice, StopPrice}, tt \in TradingTypes \cup {Absent}}
    \cup {Signal("ok", TRUE, "EURUSD", a, EntryPrice, StopPrice, TargetPrice, TRUE, "practice", None) :
        a \in OpenActions}
    \cup {Signal("ok", TRUE, t, a, EntryPrice, StopPrice, TargetPrice, FALSE, "practice", 2) :
        t \in {"EURUSD", "USDJPY"}, a \in OpenActions}

\* Well-formed close signals, with and without the (ignored) prices.
CloseSignals ==
    {Signal("ok", TRUE, t, a, p, p, p, FALSE, tt, None) :
        t \in {"EURUSD", "USDJPY"}, a \in CloseActions,
        p \in {None, EntryPrice}, tt \in TradingTypes \cup {Absent}}

Bodies == BrokenBodies \cup ValidationSignals \cup OpenSignals \cup CloseSignals

GoodHttp == [token |-> TRUE, real |-> AllowedIp, fwd |-> ""]
HttpCases == [token : BOOLEAN, real : {"", AllowedIp, OtherIp}, fwd : {"", AllowedIp, OtherIp}]
\* What a caller without access sends: a well-formed open and a well-formed close.
ProbeBodies ==
    {Signal("ok", TRUE, "EURUSD", a, EntryPrice, StopPrice, TargetPrice, FALSE, "practice", None) :
        a \in {"open_long", "close_long"}}

\* ----------------------------------------------------------- specification

\* What the broker may hold when the request arrives: nothing, or EUR_USD.
InitialPositions == {{}, {"EUR_USD"}}

NoCu ==
    [instrument |-> "", price |-> None, sl |-> None, tp |-> None, risk_percent |-> 0,
     acct |-> AccountReply(FALSE, 0, 0, 1, ""), acct2 |-> AccountReply(FALSE, 0, 0, 1, ""),
     pricing |-> PricingReply(FALSE, <<>>), returned |-> FALSE,
     out |-> [err |-> "", res |-> NoDetails, calls |-> <<>>],
     quote_currency |-> "", rated |-> FALSE,
     ex |-> [err |-> "", rate |-> NoneRat, calls |-> <<>>],
     again |-> FALSE,
     acctB |-> AccountReply(FALSE, 0, 0, 1, ""), acct2B |-> AccountReply(FALSE, 0, 0, 1, ""),
     pricingB |-> PricingReply(FALSE, <<>>),
     out2 |-> [err |-> "", res |-> NoDetails, calls |-> <<>>],
     fetched |-> FALSE,
     account_data |-> [err |-> "", balance |-> 0, leverage |-> 0, currency |-> ""],
     floated |-> FALSE, fout |-> NoFloatOut]

Init ==
    /\ DEBUG_MODE \in BOOLEAN
    /\ positions \in [TradingTypes -> InitialPositions]
    /\ snapshot \in {NoSnapshot} \cup {Snapshot(t, AllInstruments) : t \in TradingTypes}
    /\ req = [r \in Reqs |-> IdleReq]
    /\ cu = NoCu

\* One request, any input, any state of the broker and of the snapshot file.
Next ==
    \/ \E b \in Bodies : Receive(1, GoodHttp, b)
    \/ \E h \in HttpCases, b \in ProbeBodies : Receive(1, h, b)
    \/ \E a \in AccountReplies, a2 \in AccountReplies, p \in PricingReplies : PrepCalc(1, a, a2, p)
    \/ \E a \in AccountReplies, a2 \in AccountReplies, p \in PricingReplies : WebCalc(1, a, a2, p)
    \/ \E ok \in BOOLEAN : CheckOpen(1, ok)
    \/ \E a \in AccountReplies, a2 \in AccountReplies, p \in PricingReplies : OpenCalc(1, a, a2, p)
    \/ LoadPrecisions(1)
    \/ \E i \in InstrumentReplies : GetInstruments(1, i)
    \/ WritePrecisions(1)
    \/ \E ok \in BOOLEAN : PostOrder(1, ok)
    \/ \E ok \in BOOLEAN : PutClose(1, ok)
    \/ \E a \in AccountReplies, s \in SheetOutcomes : LedgerAccount(1, a, s)
    \/ \E o \in AlertOutcomes : Alert(1, o)

Spec == Init /\ [][Next]_vars

\* ------------------------------------------------- calculate_units, directly

\* calculate_units called once with arguments and broker replies of any kind.
SizingCall ==
    /\ ~cu.returned
    /\ cu' = [cu EXCEPT !.returned = TRUE,
                        !.out = calculate_units(cu.instrument, cu.price, cu.sl, cu.tp,
                                                cu.risk_percent, "practice", FALSE,
                                                cu.acct, cu.acct2, cu.pricing)]
    /\ UNCHANGED <<DEBUG_MODE, positions, snapshot, req>>

\* Stops and targets at whole multiples of 100 ticks around the entry
\* (0: on the entry), a stop of 0, and None.
SizingStops == {None, 0} \cup {EntryPrice + k * 100 : k \in (-MaxDist)..MaxDist}
SizingTargets == {None, EntryPrice - 200, EntryPrice + 300}
\* Entries at 1.0 and at 1.5.
SizingPrices == {EntryPrice, EntryPrice + 5000}
SizingInstruments == {"EUR_USD", "USD_JPY", "JPY_USD", "EUR_GBP"}
SizingRiskPercents == {1, 2, CalcDefaultRiskPercent}
\* Accounts: unreachable, without a currency, or with a balance in GBP or USD
\* at a margin rate of 1/30, 3/100 or 2 (leverage 30, 33, 0).
SizingAccounts ==
    {AccountReply(FALSE, 0, 0, 1, ""), AccountReply(TRUE, 1000, 1, 30, "")}
    \cup {AccountReply(TRUE, b, 1, 30, c) : b \in {-1000, 0, 1, 1000, 100000}, c \in {"GBP", "USD"}}
    \cup {AccountReply(TRUE, 1000, m[1], m[2], "GBP") : m \in {<<3, 100>>, <<2, 1>>}}
SizingSecondAccounts ==
    {AccountReply(FALSE, 0, 0, 1, ""), AccountReply(TRUE, 1000, 1, 30, "GBP"),
     AccountReply(TRUE, 1000, 1, 30, "USD")}
SizingPricing ==
    {PricingReply(FALSE, <<>>), PricingReply(TRUE, <<>>), PricingReply(TRUE, MidRates),
     PricingReply(TRUE, <<[instrument |-> "USD_JPY", bid |-> 1499900, ask |-> 1500100],
                          [instrument |-> "USD_GBP", bid |-> 7999, ask |-> 8001]>>)}

InitSizing ==
    /\ DEBUG_MODE = TRUE
    /\ positions = [t \in TradingTypes |-> {}]
    /\ snapshot = NoSnapshot
    /\ req = [r \in Reqs |-> IdleReq]
    /\ cu \in {[NoCu EXCEPT !.instrument = i, !.price = pr, !.sl = sl, !.tp = tp,
                            !.risk_percent = rp, !.acct = a, !.acct2 = a2, !.pricing = p] :
                 i \in SizingInstruments, pr \in SizingPrices,
                 sl \in SizingStops, tp \in SizingTargets,
                 rp \in SizingRiskPercents, a \in SizingAccounts, a2 \in SizingSecondAccounts,
                 p \in SizingPricing}

NextSizing == SizingCall

SpecSizing == InitSizing /\ [][NextSizing]_vars

\* --------------------------------------------------- calculate_units, twice

\* A second invocation of calculate_units with the arguments of the first;
\* the broker answers its calls anew.
SizingCallAgain(acct, acct2, pricing) ==
    /\ cu.returned
    /\ ~cu.again
    /\ cu' = [cu EXCEPT !.again = TRUE, !.acctB = acct, !.acct2B = acct2, !.pricingB = pricing,
                        !.out2 = calculate_units(cu.instrument, cu.price, cu.sl, cu.tp,
                                                 cu.risk_percent, "practice", FALSE,
                                                 acct, acct2, pricing)]
    /\ UNCHANGED <<DEBUG_MODE, positions, snapshot, req>>

TwiceInstruments == {"EUR_USD", "USD_JPY"}
TwiceStops == {None, EntryPrice, EntryPrice - 200}
TwiceTargets == {None, EntryPrice + 300}
\* Margin rates 1/30 and 10/301 both give a leverage of 30; 3/100 gives 33.
TwiceAccounts ==
    {AccountReply(FALSE, 0, 0, 1, ""), AccountReply(TRUE, 1000, 1, 30, "GBP"),
     AccountReply(TRUE, 1000, 10, 301, "GBP"), AccountReply(TRUE, 1000, 3, 100, "GBP"),
     AccountReply(TRUE, 2000, 1, 30, "GBP"), AccountReply(TRUE, 1000, 1, 30, "USD")}
\* Pricing: a failure, the mid-rates, the same mid-rates at a wider spread and
\* in another order, and other mid-rates.
TwicePricing ==
    {PricingReply(FALSE, <<>>), PricingReply(TRUE, MidRates),
     PricingReply(TRUE, <<[instrument |-> "GBP_USD", bid |-> 12400, ask |-> 12600],
                          [instrument |-> "GBP_JPY", bid |-> 12450, ask |-> 12550]>>),
     PricingReply(TRUE, <<[instrument |-> "GBP_USD", bid |-> 12999, ask |-> 13001],
                          [instrument |-> "GBP_JPY", bid |-> 12999, ask |-> 13001]>>)}

InitTwice ==
    /\ DEBUG_MODE = TRUE
    /\ positions = [t \in TradingTypes |-> {}]
    /\ snapshot = NoSnapshot
    /\ req = [r \in Reqs |-> IdleReq]
    /\ cu \in {[NoCu EXCEPT !.instrument = i, !.price = EntryPrice, !.sl = sl, !.tp = tp,
                            !.risk_percent = ServerRiskPercent,
                            !.acct = a, !.acct2 = a2, !.pricing = p] :
                 i \in TwiceInstruments, sl \in TwiceStops, tp \in TwiceTargets,
                 a \in TwiceAccounts, a2 \in SizingSecondAccounts, p \in TwicePricing}

NextTwice ==
    \/ SizingCall
    \/ \E a \in TwiceAccounts, a2 \in SizingSecondAccounts, p \in TwicePricing :
           SizingCallAgain(a, a2, p)

SpecTwice == InitTwice /\ [][NextTwice]_vars

\* ------------------------------------------- get_account_balance, directly

\* get_account_balance called once on a reply of any kind.
BalanceCall ==
    /\ ~cu.fetched
    /\ cu' = [cu EXCEPT !.fetched = TRUE, !.account_data = get_account_balance(cu.acct)]
    /\ UNCHANGED <<DEBUG_MODE, positions, snapshot, req>>

\* Margin rates in (0, 1] as fractions: 1, 2/3, 1/2, 0.06, 0.05, 0.035,
\* 1/30, 0.03, 0.02, 0.01; and a margin rate of 0.
BalanceMarginRates ==
    {<<1, 1>>, <<2, 3>>, <<1, 2>>, <<3, 50>>, <<1, 20>>, <<7, 200>>, <<1, 30>>, <<3, 100>>,
     <<1, 50>>, <<1, 100>>, <<0, 1>>}
BalanceReplies ==
    {AccountReply(ok, b, m[1], m[2], c) :
        ok \in BOOLEAN, b \in {0, 1000}, m \in BalanceMarginRates, c \in {"", "GBP", "USD"}}

InitBalance ==
    /\ DEBUG_MODE = TRUE
    /\ positions = [t \in TradingTypes |-> {}]
    /\ snapshot = NoSnapshot
    /\ req = [r \in Reqs |-> IdleReq]
    /\ cu \in {[NoCu EXCEPT !.acct = a] : a \in BalanceReplies}

NextBalance == BalanceCall

SpecBalance == InitBalance /\ [][NextBalance]_vars

\* ------------------------------- get_accountcurrency_exchange_rate, directly

\* get_accountcurrency_exchange_rate called once for a quote currency, with
\* broker replies of any kind.
RateCall ==
    /\ ~cu.rated
    /\ cu' = [cu EXCEPT !.rated = TRUE,
                        !.ex = get_accountcurrency_exchange_rate(cu.quote_currency, "practice",
                                                                 cu.acct, cu.pricing)]
    /\ UNCHANGED <<DEBUG_MODE, positions, snapshot, req>>

RateQuoteCurrencies == {"USD", "JPY", "GBP", "EUR"}

InitRate ==
    /\ DEBUG_MODE = TRUE
    /\ positions = [t \in TradingTypes |-> {}]
    /\ snapshot = NoSnapshot
    /\ req = [r \in Reqs |-> IdleReq]
    /\ cu \in {[NoCu EXCEPT !.quote_currency = q, !.acct = a, !.pricing = p] :
                 q \in RateQuoteCurrencies, a \in SizingAccounts, p \in SizingPricing}

NextRate == RateCall

SpecRate == InitRate /\ [][NextRate]_vars

\* ------------------------------------------- calculate_units, in binary64

\* The arithmetic of one calculate_units call as Python's floats carry it
\* out.  The calls, and the exceptions raised before line 449, are those of
\* calculate_units; a stop that is None or 0 leaves units at 0 (line 424).
FloatSizingCall ==
    /\ ~cu.floated
    /\ \E exact \in {calculate_units(cu.instrument, cu.price, cu.sl, cu.tp, cu.risk_percent,
                                      "practice", FALSE, cu.acct, cu.acct2, cu.pricing)} :
       \E account_data \in {get_account_balance(cu.acct)} :
       \E pair \in {account_data.currency \o "_" \o SplitSecond(cu.instrument)} :
          IF exact.err \notin {"", "InvalidSizing"}
          THEN cu' = [cu EXCEPT !.floated = TRUE, !.fout = [NoFloatOut EXCEPT !.err = exact.err]]
          ELSE IF ~Truthy(cu.sl)
          THEN cu' = [cu EXCEPT !.floated = TRUE, !.fout = [NoFloatOut EXCEPT !.err = "InvalidSizing"]]
          ELSE
            \E account_balance_converted \in
                 {IF SplitSecond(cu.instrument) # account_data.currency
                  THEN FloatMul(FloatFromInt(account_data.balance),
                                FloatMidPoint(FirstEntryFor(cu.pricing, pair).bid,
                                              FirstEntryFor(cu.pricing, pair).ask))
                  ELSE FloatFromInt(account_data.balance)} :
            \E risk_amount \in {FloatMul(account_balance_converted,
                                         FloatDiv(FloatFromInt(cu.risk_percent), FloatFromInt(100)))} :
            \E pip \in {FloatPipValue(cu.instrument)} :
            \E difference \in {FloatAbsDiff(FloatPrice(cu.price), FloatPrice(cu.sl))} :
            \E stop_loss_distance \in {FloatDiv(difference, pip)} :
            \E stop \in {FloatMul(stop_loss_distance, pip)} :
            \E units \in {FloatUnits(risk_amount, stop)} :
            \E exposure \in {FloatMul(stop, FloatFromInt(units))} :
               cu' = [cu EXCEPT !.floated = TRUE,
                                !.fout = IF units <= 0
                                         THEN [NoFloatOut EXCEPT !.err = "InvalidSizing"]
                                         ELSE [err |-> "", units |-> units,
                                               risk |-> FloatPercentage(exposure, account_balance_converted),
                                               account_balance_converted |-> account_balance_converted]]
    /\ UNCHANGED <<DEBUG_MODE, positions, snapshot, req>>

\* Stops: none, on the entry, and 100, 116, 200 and 232 ticks away from it.
FloatStops == {None, EntryPrice, EntryPrice - 100, EntryPrice + 116, EntryPrice - 200, EntryPrice - 232}
FloatInstruments == {"EUR_USD", "USD_JPY"}
FloatRiskPercents == {1, CalcDefaultRiskPercent}
\* Accounts: unreachable, or with a balance in GBP or USD.
FloatAccounts ==
    {AccountReply(FALSE, 0, 0, 1, "")}
    \cup {AccountReply(TRUE, b, 1, 30, c) : b \in {1000, 5000, 10000}, c \in {"GBP", "USD"}}
\* Rates of 1.25 and of 1.2731 for the account's currency.
FloatPricing ==
    {PricingReply(TRUE, MidRates),
     PricingReply(TRUE, <<[instrument |-> "GBP_USD", bid |-> 12730, ask |-> 12732],
                          [instrument |-> "GBP_JPY", bid |-> 12730, ask |-> 12732],
                          [instrument |-> "USD_JPY", bid |-> 12730, ask |-> 12732]>>)}

InitFloat ==
    /\ DEBUG_MODE = TRUE
    /\ positions = [t \in TradingTypes |-> {}]
    /\ snapshot = NoSnapshot
    /\ req = [r \in Reqs |-> IdleReq]
    /\ cu \in {[NoCu EXCEPT !.instrument = i, !.price = EntryPrice, !.sl = sl,
                            !.risk_percent = rp, !.acct = a, !.acct2 = a, !.pricing = p] :
                 i \in FloatInstruments, sl \in FloatStops, rp \in FloatRiskPercents,
                 a \in FloatAccounts, p \in FloatPricing}

NextFloat == SizingCall \/ FloatSizingCall

SpecFloat == InitFloat /\ [][NextFloat]_vars

\* ------------------------------------------------------ concurrent requests

\* Valid open signals for the practice account, one per instrument.
ConcSignals ==
    {Signal("ok", TRUE, "EURUSD", "open_long", EntryPrice, StopPrice, TargetPrice, FALSE,
            "practice", None),
     Signal("ok", TRUE, "USDJPY", "open_short", EntryPrice, StopPrice, TargetPrice, FALSE,
            "practice", None)}
\* A broker that answers the sizing calls; only the position query and the
\* order itself may fail.
ConcAccountReplies == {AccountReply(TRUE, 1000, 1, 30, "GBP")}
ConcPricingReplies == {PricingReply(TRUE, MidRates)}
ConcAlertOutcomes == {"sent"}

InitConc ==
    /\ DEBUG_MODE \in BOOLEAN
    /\ positions = [t \in TradingTypes |-> {}]
    /\ snapshot \in {NoSnapshot, Snapshot("practice", AllInstruments)}
    /\ req = [r \in Reqs |-> IdleReq]
    /\ cu = NoCu

\* NReq requests served by one event loop: at each await the loop may resume
\* any of them (server.py defines no lock).
NextConc ==
    \E r \in Reqs :
        \/ \E b \in ConcSignals : Receive(r, GoodHttp, b)
        \/ \E a \in ConcAccountReplies, p \in ConcPricingReplies : PrepCalc(r, a, a, p)
        \/ \E a \in ConcAccountReplies, p \in ConcPricingReplies : WebCalc(r, a, a, p)
        \/ \E ok \in BOOLEAN : CheckOpen(r, ok)
        \/ \E a \in ConcAccountReplies, p \in ConcPricingReplies : OpenCalc(r, a, a, p)
        \/ LoadPrecisions(r)
        \/ GetInstruments(r, FullList)
        \/ WritePrecisions(r)
        \/ \E ok \in BOOLEAN : PostOrder(r, ok)
        \/ \E a \in ConcAccountReplies : LedgerAccount(r, a, "appended")
        \/ \E o \in ConcAlertOutcomes : Alert(r, o)

SpecConc == InitConc /\ [][NextConc]_vars

\* ------------------------------------------------------ successive requests

\* Valid signals: two opens and a close for the practice account, an open for
\* the live account.
SeqSignals ==
    ConcSignals \cup
    {Signal("ok", TRUE, "EURUSD", "close_long", None, None, None, FALSE, "practice", None),
     Signal("ok", TRUE, "EURUSD", "open_long", EntryPrice, StopPrice, TargetPrice, FALSE,
            "live", None)}

\* The request has been answered: the server handles the next one.
NextSignal(r) ==
    /\ req[r].pc = "done"
    /\ req' = [req EXCEPT ![r] = IdleReq]
    /\ UNCHANGED <<DEBUG_MODE, positions, snapshot, cu>>

\* The operator deletes price_precisions.json.
DeleteSnapshot ==
    /\ snapshot # NoSnapshot
    /\ snapshot' = NoSnapshot
    /\ UNCHANGED <<DEBUG_MODE, positions, req, cu>>

\* The server starts with a snapshot on disk and an account without positions.
InitSeq ==
    /\ DEBUG_MODE \in BOOLEAN
    /\ positions = [t \in TradingTypes |-> {}]
    /\ snapshot = Snapshot("practice", AllInstruments)
    /\ req = [r \in Reqs |-> IdleReq]
    /\ cu = NoCu

\* Signals handled one after the other, the snapshot file deleted at any time.
NextSeq ==
    \/ \E b \in SeqSignals : Receive(1, GoodHttp, b)
    \/ \E a \in ConcAccountReplies, p \in ConcPricingReplies : PrepCalc(1, a, a, p)
    \/ \E a \in ConcAccountReplies, p \in ConcPricingReplies : WebCalc(1, a, a, p)
    \/ \E ok \in BOOLEAN : CheckOpen(1, ok)
    \/ \E a \in ConcAccountReplies, p \in ConcPricingReplies : OpenCalc(1, a, a, p)
    \/ LoadPrecisions(1)
    \/ \E i \in InstrumentReplies : GetInstruments(1, i)
    \/ WritePrecisions(1)
    \/ \E ok \in BOOLEAN : PostOrder(1, ok)
    \/ \E ok \in BOOLEAN : PutClose(1, ok)
    \/ \E a \in ConcAccountReplies : LedgerAccount(1, a, "appended")
    \/ \E o \in ConcAlertOutcomes : Alert(1, o)
    \/ NextSignal(1)
    \/ DeleteSnapshot

SpecSeq == InitSeq /\ [][NextSeq]_vars

\* ------------------------------------------------------------------ claims

\* The request sent a call to one of the endpoints.
HasCall(q, endpoints) == \E i \in 1..Len(q.calls) : q.calls[i].endpoint \in endpoints

\* The request is being, or has been, answered with a 4xx status.
Rejected4xx(q) ==
    \/ q.pc = "alert" /\ q.pending >= 400 /\ q.pending < 500
    \/ q.pc = "done" /\ q.status >= 400 /\ q.status < 500

\* One of the three prices of an open signal is absent.
MissingOpenFieldsAny(b) ==
    \E f \in {"price", "stop_loss_price", "take_profit_price"} : b[f] = None

\* The request passed the access checks, parsed as JSON and carries an id.
Parsed(q) ==
    /\ q.pc # "idle"
    /\ q.http = GoodHttp
    /\ q.body.json = "ok"
    /\ q.body.id

\* C1: an open_long / open_short whose open-positions query listed at least
\* one position, on any instrument, ends with the PositionAlreadyOpen error:
\* it builds no order and sends none, and the request is answered with an error.
C1_OpenRejectedWhenAnyPositionOpen ==
    \A r \in Reqs :
        (req[r].positions_data # <<>> /\ req[r].positions_data[1] # {}) =>
            /\ req[r].body.action \in OpenActions
            /\ req[r].err = "PositionAlreadyOpen"
            /\ req[r].pc \in {"alert", "done"}
            /\ req[r].payload = NoPayload
            /\ req[r].order_response = ""
            /\ ~HasCall(req[r], {"orders"})
            /\ req[r].pc = "done" => req[r].status >= 400

\* C1 witness: an open for USD_JPY answered with an error because the account
\* holds a position on another instrument.
C1_Witness ==
    \E r \in Reqs :
        /\ req[r].pc = "done"
        /\ req[r].body.action = "open_short"
        /\ req[r].instrument = "USD_JPY"
        /\ req[r].positions_data = <<{"EUR_USD"}>>
        /\ req[r].err = "PositionAlreadyOpen"
        /\ req[r].status = ServerError

\* The window of an open request in which it has seen no open position and
\* has not yet had its order answered.
InOpenSection(q) ==
    q.pc \in {"open_calc", "load_precisions", "get_instruments", "write_precisions", "post_order"}

\* C2: with debug mode off, at most one open request per account is between
\* its open-positions query and the answer to its order, and (starting from an
\* account without positions) at most one order is accepted.
C2_OpenSequenceExclusive ==
    ~DEBUG_MODE =>
        /\ \A r1 \in Reqs, r2 \in Reqs :
               (r1 # r2 /\ req[r1].body.trading_type = req[r2].body.trading_type) =>
                   ~(InOpenSection(req[r1]) /\ InOpenSection(req[r2]))
        /\ Cardinality({r \in Reqs : req[r].order_response = "broker"}) <= 1

\* C3: with DEBUG_MODE set no request sends POST /orders or PUT .../close, and
\* an order function that returns returns the debug sentinel.
C3_DebugSendsNothing ==
    DEBUG_MODE =>
        \A r \in Reqs :
            /\ ~HasCall(req[r], {"orders", "close"})
            /\ req[r].order_response \in {"", "debug"}
            /\ req[r].pc \notin {"post_order", "put_close"}
            /\ (req[r].pc = "ledger_account" \/ req[r].row.written) =>
                   req[r].order_response = "debug"

\* C3 witness: with DEBUG_MODE set, an open_long built its order, returned the
\* sentinel and was answered 200.
C3_Witness ==
    /\ DEBUG_MODE
    /\ \E r \in Reqs :
        /\ req[r].pc = "done"
        /\ req[r].status = OK
        /\ req[r].body.action = "open_long"
        /\ req[r].payload # NoPayload
        /\ req[r].order_response = "debug"

\* C4: an open signal that lacks price, stop_loss_price or take_profit_price
\* is rejected with a 4xx status and no call to the broker; when its ticker
\* is valid the rejection is the validation error of line 121.
C4_OpenWithoutPricesRejected ==
    \A r \in Reqs :
        (/\ req[r].pc # "idle"
         /\ req[r].body.json = "ok"
         /\ req[r].body.action \in OpenActions
         /\ MissingOpenFieldsAny(req[r].body)) =>
            /\ req[r].calls = <<>>
            /\ Rejected4xx(req[r])
            /\ req[r].order_response = ""
            /\ (Parsed(req[r]) /\ req[r].body.ticker \in {"EURUSD", "GBPJPY"}) =>
                   req[r].err = "MissingParameters"

\* C4 witness: an open_long for EURUSD with no price, answered 400.
C4_Witness ==
    \E r \in Reqs :
        /\ req[r].pc = "done"
        /\ req[r].body.action = "open_long"
        /\ req[r].body.ticker = "EURUSD"
        /\ req[r].body.price = None
        /\ req[r].body.stop_loss_price # None
        /\ req[r].body.take_profit_price # None
        /\ req[r].err = "MissingParameters"
        /\ req[r].status = BadRequest

\* A ticker that is missing, not 6 characters long, or whose instrument is
\* not a supported pair.
BadTicker(t) ==
    \/ t = ""
    \/ Len(t) # 6
    \/ (SubSeq(t, 1, 3) \o "_" \o SubSeq(t, 4, 6)) \notin SUPPORTED_PAIRS

\* C5: a signal with such a ticker is rejected with a 4xx status before any
\* call to the broker.
C5_BadTickerRejected ==
    \A r \in Reqs :
        (req[r].pc # "idle" /\ req[r].body.json = "ok" /\ BadTicker(req[r].body.ticker)) =>
            /\ req[r].calls = <<>>
            /\ Rejected4xx(req[r])
            /\ req[r].order_response = ""
            /\ ~req[r].row.written

\* C5 witness: a complete open for the 6-character ticker ABCDEF, answered
\* 400 as unsupported.
C5_Witness ==
    \E r \in Reqs :
        /\ req[r].pc = "done"
        /\ req[r].body.ticker = "ABCDEF"
        /\ req[r].body.action = "open_long"
        /\ ~MissingOpenFieldsAny(req[r].body)
        /\ req[r].err = "UnsupportedTicker"
        /\ req[r].status = BadRequest

\* i is the first 3 characters of t, an underscore, and its last 3.
IsInstrumentOf(i, t) ==
    /\ Len(i) = 7
    /\ SubSeq(i, 1, 3) = SubSeq(t, 1, 3)
    /\ SubSeq(i, 4, 4) = "_"
    /\ SubSeq(i, 5, 7) = SubSeq(t, 4, 6)

\* C6: for a 6-character ticker that reaches translate, the instrument is the
\* first 3 characters, "_", the last 3; the order payload, the order and
\* close calls and the ledger row all name that instrument.
C6_InstrumentFromTicker ==
    \A r \in Reqs :
        (Parsed(req[r]) /\ Len(req[r].body.ticker) = 6) =>
            /\ IsInstrumentOf(req[r].instrument, req[r].body.ticker)
            /\ req[r].payload # NoPayload =>
                   IsInstrumentOf(req[r].payload.instrument, req[r].body.ticker)
            /\ req[r].row.written => IsInstrumentOf(req[r].row.instrument, req[r].body.ticker)
            /\ \A i \in 1..Len(req[r].calls) :
                   req[r].calls[i].endpoint \in {"orders", "close"} =>
                       IsInstrumentOf(req[r].calls[i].instrument, req[r].body.ticker)

\* C6 witness: an order for USD_JPY was sent for the ticker USDJPY and logged.
C6_Witness ==
    \E r \in Reqs :
        /\ req[r].pc = "done"
        /\ req[r].body.ticker = "USDJPY"
        /\ req[r].instrument = "USD_JPY"
        /\ req[r].payload.instrument = "USD_JPY"
        /\ HasCall(req[r], {"orders"})
        /\ req[r].row.written
        /\ req[r].row.instrument = "USD_JPY"

C8_UnitsAtLeastOne ==
    cu.returned =>
        /\ cu.out.err = "" => cu.out.res.units >= 1
        /\ (cu.acct.ok /\ cu.acct.balance <= 0) => (cu.out.err # "" /\ cu.out.res = NoDetails)

\* C8 witness: a result at the boundary, exactly 1 unit.
C8_Witness ==
    /\ cu.returned
    /\ cu.out.err = ""
    /\ cu.out.res.units = 1

\* C9: the units of a built order equal the sizing result's, positive, count
\* for a long and its negation for a short; the sizing results themselves are
\* positive for both directions.
C9_OrderUnitsSigned ==
    \A r \in Reqs :
        req[r].payload # NoPayload =>
            /\ req[r].open_details.units >= 1
            /\ req[r].trade_details.units >= 1
            /\ req[r].params.units >= 1
            /\ req[r].body.action = "open_long" =>
                   req[r].payload.units = req[r].open_details.units
            /\ req[r].body.action = "open_short" =>
                   req[r].payload.units = 0 - req[r].open_details.units

\* C9 witness: a short order was sent to the broker with negative units.
C9_Witness ==
    \E r \in Reqs :
        /\ req[r].body.action = "open_short"
        /\ HasCall(req[r], {"orders"})
        /\ req[r].order_response = "broker"
        /\ req[r].payload.units < 0
        /\ req[r].payload.units = 0 - req[r].open_details.units

\* C10: a validated signal whose execution ends with UpstreamError,
\* PositionAlreadyOpen or InvalidSizing is answered with HTTP 500.
C10_ExecutionErrorsAre500 ==
    \A r \in Reqs :
        (/\ req[r].pc = "done"
         /\ Parsed(req[r])
         /\ ~BadTicker(req[r].body.ticker)
         /\ req[r].body.action \in OpenActions \cup CloseActions
         /\ ~(req[r].body.action \in OpenActions /\ MissingOpenFieldsAny(req[r].body))
         /\ req[r].err \in {"UpstreamError", "PositionAlreadyOpen", "InvalidSizing"}) =>
            req[r].status = ServerError

\* C11: a request that ends with the sizing error (a unit count of 0 or less,
\* a stop on the entry) is answered with a 4xx status.
C11_InvalidSizingIs4xx ==
    \A r \in Reqs :
        (req[r].pc = "done" /\ req[r].err = "InvalidSizing") =>
            (req[r].status >= 400 /\ req[r].status < 500)

\* C12: a failed alert delivery (a network error, a non-2xx answer of the
\* chat webhook) leaves the answer of the request as it was about to be, on
\* the success path and on the error paths.
C12_AlertFailureKeepsAnswer ==
    \A r \in Reqs :
        (req[r].pc = "done" /\ req[r].alert \in {"RequestError", "HTTPStatusError"}) =>
            req[r].status = req[r].pending

\* C13: log_trade never raises, whatever the spreadsheet service does and
\* whatever the row: a request whose row was handed to log_trade goes on to its
\* success alert, and a row that did not reach the sheet was logged locally or
\* as an error.
C13_LogTradeNeverRaises ==
    \A r \in Reqs :
        req[r].row.written =>
            /\ req[r].err = ""
            /\ req[r].site = "ok"
            /\ req[r].pending = OK
            /\ req[r].row.logged \in {"sheet", "local", "error"}

\* C13 witness: append_row failed for the row of an open_short and the
\* request was still answered 200.
C13_Witness ==
    \E r \in Reqs :
        /\ req[r].pc = "done"
        /\ req[r].row.written
        /\ req[r].row.action = "open_short"
        /\ req[r].row.logged = "error"
        /\ req[r].alert = "sent"
        /\ req[r].status = OK

\* C14: one signal sends at most one order-changing request (order POST or
\* position-close PUT); a request whose submission failed has ended with the
\* error, it does not submit again.
C14_AtMostOneSubmission ==
    \A r \in Reqs :
        /\ Cardinality(OrderChanging(req[r])) <= 1
        /\ (OrderChanging(req[r]) # {} /\ req[r].order_response = "") =>
               (req[r].err = "UpstreamError" /\ req[r].pc \in {"alert", "done"})

\* C14 witness: an order POST failed and the request was answered 500 after
\* that single attempt.
C14_Witness ==
    \E r \in Reqs :
        /\ req[r].pc = "done"
        /\ req[r].body.action = "open_long"
        /\ Cardinality(OrderChanging(req[r])) = 1
        /\ req[r].calls[Len(req[r].calls)].endpoint = "orders"
        /\ req[r].err = "UpstreamError"
        /\ req[r].status = ServerError

\* The request moved on from the step pc in this transition.
Left(r, pc) == req[r].pc = pc /\ req'[r].pc # pc

\* C15: a precision lookup that finds a snapshot only loads it: it sends no
\* request to the broker, leaves the file as it is and returns the file's
\* mapping.  A lookup that finds none fetches the instrument list, writes the
\* whole fetched mapping to the file and returns it.  An existing snapshot is
\* only ever changed by its deletion, after which the next lookup fetches.
C15_LookupStep ==
    \A r \in Reqs :
        /\ (Left(r, "open_calc") /\ req'[r].err = "") =>
               req'[r].pc = (IF snapshot # NoSnapshot THEN "load_precisions"
                             ELSE "get_instruments")
        /\ (Left(r, "load_precisions") /\ req'[r].err # "FileNotFoundError") =>
               /\ req'[r].calls = req[r].calls
               /\ snapshot' = snapshot
               /\ req'[r].price_precisions = snapshot.names
        /\ Left(r, "get_instruments") =>
               /\ Len(req'[r].calls) = Len(req[r].calls) + 1
               /\ req'[r].calls[Len(req'[r].calls)].endpoint = "instruments"
               /\ req'[r].err = "" => req'[r].pc = "write_precisions"
        /\ Left(r, "write_precisions") =>
               /\ snapshot'.names = req[r].instruments
               /\ req'[r].price_precisions = req[r].instruments
               /\ req'[r].calls = req[r].calls
        /\ (snapshot # NoSnapshot /\ snapshot' # snapshot) => snapshot' = NoSnapshot
        /\ HasCall(req'[r], {"instruments"}) =>
               (HasCall(req[r], {"instruments"}) \/ req[r].pc = "get_instruments")
C15_SnapshotLoadedOrFetched == [][C15_LookupStep]_vars

\* C15 witness: the server started with a snapshot, yet a request fetched the
\* instrument list (the file had been deleted), persisted it and was answered 200.
C15_Witness ==
    \E r \in Reqs :
        /\ req[r].pc = "done"
        /\ req[r].status = OK
        /\ HasCall(req[r], {"instruments"})
        /\ req[r].price_precisions = AllInstruments
        /\ snapshot = Snapshot("practice", AllInstruments)

\* The fetch-and-persist path of a precision lookup.
InFetchAndPersist(q) == q.pc \in {"get_instruments", "write_precisions"}

\* C16: no two requests are in the fetch-and-persist path of the precision
\* lookup at once.
C16_FetchAndPersistSerialized ==
    \A r1 \in Reqs, r2 \in Reqs :
        r1 # r2 => ~(InFetchAndPersist(req[r1]) /\ InFetchAndPersist(req[r2]))

\* C17: a close_long / close_short request sends the position-close PUT as
\* its first request to the broker: no open-positions query, no sizing (no
\* sizing result, no pricing fetch, no account fetch before the close has
\* returned), no instrument list and no order.
C17_CloseIsDirect ==
    \A r \in Reqs :
        req[r].body.action \in CloseActions =>
            /\ ~HasCall(req[r], {"openPositions", "pricing", "instruments", "orders"})
            /\ \A i \in 1..Len(req[r].calls) :
                   /\ req[r].calls[i].endpoint = "close" => i = 1
                   /\ req[r].calls[i].endpoint = "account" => req[r].order_response # ""
            /\ req[r].params = NoDetails
            /\ req[r].trade_details = NoDetails
            /\ req[r].open_details = NoDetails
            /\ req[r].positions_data = <<>>

\* C17 witness: a close_short that carried prices was sent to the broker as
\* the first call, then logged and answered 200.
C17_Witness ==
    \E r \in Reqs :
        /\ req[r].pc = "done"
        /\ req[r].status = OK
        /\ req[r].body.action = "close_short"
        /\ req[r].body.stop_loss_price = req[r].body.price
        /\ req[r].body.price # None
        /\ Len(req[r].calls) = 2
        /\ req[r].calls[1].endpoint = "close"
        /\ req[r].calls[2].endpoint = "account"
        /\ req[r].order_response = "broker"

\* The risk percentage a signal asks for: its risk_percent, 1 when it has none.
RequestedRiskPercent(b) == IF b.risk_percent = None THEN 1 ELSE b.risk_percent

\* C18: the units of a built order are those of the signal's risk percentage
\* (1 when the signal names none): the whole part of
\* converted balance * risk_percent / 100 / |price - stop|.
C18_SignalRiskPercentApplied ==
    \A r \in Reqs :
        req[r].payload # NoPayload =>
            req[r].open_details.units =
                Trunc(req[r].open_details.account_balance_converted.n
                          * RequestedRiskPercent(req[r].body) * PriceScale,
                      req[r].open_details.account_balance_converted.d * 100
                          * Abs(req[r].body.price - req[r].body.stop_loss_price))

\* An open signal that passed the checks made before the sizing call of
\* post_data_to_oanda_parameters, that call having been made.
SizedOpen(q) ==
    /\ Parsed(q)
    /\ ~BadTicker(q.body.ticker)
    /\ q.body.action \in OpenActions
    /\ ~MissingOpenFieldsAny(q.body)
    /\ q.pc # "prep_calc"

\* post_data_to_oanda_parameters called translate once with the posted data,
\* then calculate_units once with the translated instrument, the prices as
\* floats, the given risk_percent, and the signal's trading type or "practice".
PrepCallsWith(q, risk_percent) ==
    /\ Len(q.invoked) = 2
    /\ q.invoked[1] = Invocation("translate", q.body)
    /\ q.invoked[2].fn = "calculate_units"
    /\ IsInstrumentOf(q.invoked[2].arg.instrument, q.body.ticker)
    /\ q.invoked[2].arg.price = q.body.price
    /\ q.invoked[2].arg.stop_loss_price = q.body.stop_loss_price
    /\ q.invoked[2].arg.take_profit_price = q.body.take_profit_price
    /\ ~q.invoked[2].arg.isStr
    /\ q.invoked[2].arg.risk_percent = risk_percent
    /\ q.invoked[2].arg.trading_type =
           (IF q.body.trading_type \in TradingTypes THEN q.body.trading_type ELSE "practice")

C20_ParametersCarrySizing ==
    \A r \in Reqs :
        (SizedOpen(req[r]) /\ req[r].site # "data") =>
            /\ req[r].prep_details.units >= 1
            /\ IsInstrumentOf(req[r].params.instrument, req[r].body.ticker)
            /\ \A k \in {"units", "margin", "pip_value", "trade_value", "reward", "risk"} :
                   req[r].params[k] = req[r].prep_details[k]

\* C20 witness: the parameters of a USD_JPY short hold its sizing, with a
\* margin and a risk that are numbers.
C20_Witness ==
    \E r \in Reqs :
        /\ SizedOpen(req[r])
        /\ req[r].site # "data"
        /\ req[r].params.instrument = "USD_JPY"
        /\ req[r].params.units >= 1
        /\ req[r].params.margin # NoneRat
        /\ req[r].params.risk # NoneRat
        /\ req[r].params = dict_update([instrument |-> "USD_JPY"], req[r].prep_details)

\* ---------------------------------------------------------------- C21 - C30

\* The sum of the bid and the ask of the first pricing entry for the pair
\* (twice the mid-rate, in ticks).
BidPlusAsk(pricing, pair) == FirstEntryFor(pricing, pair).bid + FirstEntryFor(pricing, pair).ask
PricingCalls(calls) == {i \in 1..Len(calls) : calls[i].endpoint = "pricing"}

\* C21: calculate_units reports account_balance_original equal to the balance
\* the broker reported, and account_balance_converted equal to that balance
\* times the mid-rate of ACCOUNTCURRENCY_QUOTECURRENCY when the instrument's
\* quote currency differs from the account currency (the account reporting
\* the same currency at both fetches), and equal to the balance itself when
\* they are the same, in which case no pricing call is made.
C21_BalancesReported ==
    cu.returned =>
        /\ (cu.acct.ok /\ SplitSecond(cu.instrument) = cu.acct.currency) =>
               PricingCalls(cu.out.calls) = {}
        /\ cu.out.err = "" =>
               /\ cu.out.res.account_balance_original = cu.acct.balance
               /\ SplitSecond(cu.instrument) = cu.acct.currency =>
                      cu.out.res.account_balance_converted = FromInt(cu.acct.balance)
               /\ (SplitSecond(cu.instrument) # cu.acct.currency
                       /\ cu.acct2.currency = cu.acct.currency) =>
                      /\ PricingCalls(cu.out.calls) # {}
                      /\ cu.out.res.account_balance_converted =
                             Mul(FromInt(cu.acct.balance),
                                 Frac(BidPlusAsk(cu.pricing,
                                                 cu.acct.currency \o "_" \o SplitSecond(cu.instrument)),
                                      2 * PriceScale))
\* A GBP account of 1000 sizing EUR_USD at GBP_USD 1.25: 1250 converted.
C21_Witness ==
    /\ cu.returned
    /\ cu.out.err = ""
    /\ cu.instrument = "EUR_USD"
    /\ cu.acct.currency = "GBP" /\ cu.acct.balance = 1000
    /\ cu.acct2.currency = "GBP"
    /\ cu.out.res.account_balance_original = 1000
    /\ cu.out.res.account_balance_converted = FromInt(1250)

\* C22: get_accountcurrency_exchange_rate returns the average of the best bid
\* and the best ask of the pricing entry whose instrument is
\* ACCOUNTCURRENCY_QUOTECURRENCY (a rate greater than 0 for positive prices),
\* and fails with an error when the response holds no entry for that pair.
C22_MidRateOfThePair ==
    (cu.rated /\ cu.acct.ok /\ cu.acct.mrn # 0 /\ cu.acct.currency # "" /\ cu.pricing.ok) =>
        /\ EntriesFor(cu.pricing, cu.acct.currency \o "_" \o cu.quote_currency) # {} =>
               /\ cu.ex.err = ""
               /\ cu.ex.rate.d # 0
               /\ 2 * PriceScale * cu.ex.rate.n
                      = BidPlusAsk(cu.pricing, cu.acct.currency \o "_" \o cu.quote_currency)
                          * cu.ex.rate.d
               /\ cu.ex.rate.n > 0 /\ cu.ex.rate.d > 0
        /\ EntriesFor(cu.pricing, cu.acct.currency \o "_" \o cu.quote_currency) = {} =>
               /\ cu.ex.err = "InstrumentNotFound"
               /\ cu.ex.rate = NoneRat
\* A USD account asking for JPY: the USD_JPY entry at 149.99 / 150.01 gives 150.
C22_Witness ==
    /\ cu.rated
    /\ cu.acct.currency = "USD" /\ cu.quote_currency = "JPY"
    /\ cu.ex.err = ""
    /\ cu.ex.rate = FromInt(150)

\* C23 as stated: with DEBUG_MODE set, the value an order submission returns
\* carries the would-be order payload it constructed.
C23_SentinelCarriesPayload ==
    \A r \in Reqs :
        (DEBUG_MODE /\ req[r].body.action \in OpenActions /\ req[r].order_response = "debug") =>
            \E i \in 1..Len(req[r].debug_return.payloads) :
                req[r].debug_return.payloads[i] = req[r].payload

\* C23, amended: with DEBUG_MODE set, the value an order submission returns is
\* the sentinel of status "debug" and a message, which holds no payload; the
\* would-be payload (instrument, signed units, formatted stop-loss and
\* take-profit prices) is written to the server log, and no order is sent.
C23_SentinelAndLoggedPayload ==
    \A r \in Reqs :
        (DEBUG_MODE /\ req[r].body.action \in OpenActions /\ req[r].order_response = "debug") =>
            /\ req[r].debug_return.status = "debug"
            /\ req[r].debug_return.message = "Order logged to server.log"
            /\ req[r].debug_return.payloads = <<>>
            /\ req[r].server_log = <<req[r].payload>>
            /\ req[r].payload.instrument = req[r].instrument
            /\ req[r].payload.units = (IF req[r].body.action = "open_short"
                                       THEN 0 - req[r].open_details.units
                                       ELSE req[r].open_details.units)
            /\ req[r].payload.stopLossOnFill.decimals = DisplayPrecision(req[r].instrument)
            /\ req[r].payload.takeProfitOnFill.decimals = DisplayPrecision(req[r].instrument)
            /\ ~HasCall(req[r], {"orders"})
\* A short in debug mode: the sentinel was returned, the payload with negative
\* units is in the log.
C23_Witness ==
    /\ DEBUG_MODE
    /\ \E r \in Reqs :
        /\ req[r].body.action = "open_short"
        /\ req[r].order_response = "debug"
        /\ req[r].debug_return.status = "debug"
        /\ Len(req[r].server_log) = 1
        /\ req[r].server_log[1].units < 0

\* Two account replies that report the same account state: balance, leverage
\* (the whole part of 1 / marginRate) and currency.
SameAccountState(a, b) ==
    /\ a.ok /\ b.ok
    /\ a.balance = b.balance
    /\ a.currency = b.currency
    /\ a.mrn # 0 /\ b.mrn # 0
    /\ Trunc(a.mrd, a.mrn) = Trunc(b.mrd, b.mrn)
\* Two pricing replies that give the same mid-rate for the pair.
SameMidRate(p, q, pair) ==
    /\ p.ok /\ q.ok
    /\ EntriesFor(p, pair) # {} /\ EntriesFor(q, pair) # {}
    /\ BidPlusAsk(p, pair) = BidPlusAsk(q, pair)

\* C24: calculate_units is deterministic: two invocations with the same
\* arguments, the same account state (balance, leverage, currency) and the
\* same mid-rate either both fail or both return results equal in every field.
C24_SizingDeterministic ==
    (/\ cu.returned /\ cu.again
     /\ SameAccountState(cu.acct, cu.acctB)
     /\ SameAccountState(cu.acct2, cu.acct2B)
     /\ SameMidRate(cu.pricing, cu.pricingB, cu.acct2.currency \o "_" \o SplitSecond(cu.instrument)))
    => \/ cu.out.err # "" /\ cu.out2.err # ""
       \/ cu.out.err = "" /\ cu.out2.err = "" /\ cu.out.res = cu.out2.res
\* Two successful invocations whose broker replies differ (another margin
\* rate of the same leverage, another spread around the same mid-rate).
C24_Witness ==
    /\ cu.returned /\ cu.again
    /\ SameAccountState(cu.acct, cu.acctB) /\ cu.acct # cu.acctB
    /\ SameAccountState(cu.acct2, cu.acct2B)
    /\ SameMidRate(cu.pricing, cu.pricingB, cu.acct2.currency \o "_" \o SplitSecond(cu.instrument))
    /\ cu.pricing # cu.pricingB
    /\ cu.out.err = "" /\ cu.out2.err = ""
    /\ cu.out.res.units > 0
    /\ cu.out.res = cu.out2.res

\* C25: for each open signal one sizing result is consumed by both the order
\* submission and the ledger: the units and the metrics of the row handed to
\* log_trade are those of the order that was built, whatever the account
\* balance or the mid-rate did while the signal was handled.
C25_LedgerRecordsTheOrder ==
    \A r \in Reqs :
        (req[r].row.written /\ req[r].body.action \in OpenActions) =>
            /\ req[r].row.units = Abs(req[r].payload.units)
            /\ req[r].row.details = req[r].open_details

\* A success outcome of an open signal: the row of status success was handed
\* to log_trade, the "Opened position" alert is being or was sent, or the
\* request was answered 200.
OpenSucceeded(q) ==
    /\ q.body.action \in OpenActions
    /\ \/ q.row.written /\ q.row.status = "success"
       \/ q.site = "ok" /\ q.pc \in {"alert", "done"}
       \/ q.pc = "done" /\ q.status = OK

\* C26 as stated: a success outcome for an open signal is produced only after
\* the broker returned a successful response to the order submission of that
\* same request.
C26_SuccessOnlyAfterBrokerAccepted ==
    \A r \in Reqs :
        OpenSucceeded(req[r]) =>
            /\ req[r].order_response = "broker"
            /\ HasCall(req[r], {"orders"})

\* C26, amended: a success outcome for an open signal is produced only after
\* open_long_position / open_short_position of that request returned without
\* raising: with DEBUG_MODE unset, after the broker answered that request's
\* POST /orders successfully; with DEBUG_MODE set, after the debug sentinel,
\* no order having been submitted.
C26_SuccessOnlyAfterOrderReturned ==
    \A r \in Reqs :
        OpenSucceeded(req[r]) =>
            /\ req[r].payload # NoPayload
            /\ req[r].order_response \in {"broker", "debug"}
            /\ req[r].order_response = "broker" =>
                   /\ ~DEBUG_MODE
                   /\ Cardinality(OrderChanging(req[r])) = 1
                   /\ req[r].payload.instrument \in positions[req[r].body.trading_type]
            /\ req[r].order_response = "debug" =>
                   /\ DEBUG_MODE
                   /\ OrderChanging(req[r]) = {}
\* An open_long answered 200 after the broker accepted its order.
C26_Witness ==
    \E r \in Reqs :
        /\ req[r].body.action = "open_long"
        /\ req[r].pc = "done" /\ req[r].status = OK
        /\ req[r].row.written /\ req[r].row.status = "success"
        /\ req[r].order_response = "broker"
        /\ HasCall(req[r], {"orders"})

\* C27: while an open signal is handled, the open-positions query comes
\* before any invocation of calculate_units (whose first call to the broker is
\* the account fetch), and calculate_units is not invoked at all when a
\* position is already open.
C27_PositionsQueriedBeforeSizing ==
    \A r \in Reqs :
        req[r].body.action \in OpenActions =>
            /\ \A i \in 1..Len(req[r].calls) :
                   req[r].calls[i].endpoint \in {"account", "pricing"} =>
                       \E j \in 1..(i - 1) : req[r].calls[j].endpoint = "openPositions"
            /\ (req[r].positions_data # <<>> /\ req[r].positions_data[1] # {}) =>
                   ~HasCall(req[r], {"account", "pricing"})

\* An account reply from which get_account_balance returns.
AccountAnswered(a) == a.ok /\ a.mrn # 0 /\ a.currency # ""

\* C28: an error raised by a broker call surfaces from calculate_units as that
\* same error: a failed account fetch, a failed account fetch inside
\* get_accountcurrency_exchange_rate and a failed pricing request all end the
\* invocation with the broker's error.
C28_BrokerErrorsSurfaceUnchanged ==
    cu.returned =>
        /\ ~cu.acct.ok => cu.out.err = "UpstreamError"
        /\ (/\ AccountAnswered(cu.acct)
            /\ SplitSecond(cu.instrument) # cu.acct.currency
            /\ ~cu.acct2.ok) => cu.out.err = "UpstreamError"
        /\ (/\ AccountAnswered(cu.acct)
            /\ SplitSecond(cu.instrument) # cu.acct.currency
            /\ AccountAnswered(cu.acct2)
            /\ ~cu.pricing.ok) => cu.out.err = "UpstreamError"

\* C29: the pip size calculate_units uses is 0.01 exactly when the
\* instrument's quote currency (the part after the underscore) contains JPY,
\* and 0.0001 for every other instrument, an instrument whose base currency
\* is JPY included.  The result reports it as pip_value (times the units when
\* the balance was converted).
C29_PipSizeByQuoteCurrency ==
    (cu.returned /\ cu.out.err = "") =>
        cu.out.res.pip_value =
            Mul(IF ContainsJPY(SplitSecond(cu.instrument)) THEN Frac(1, 100) ELSE Frac(1, 10000),
                IF SplitSecond(cu.instrument) # cu.acct.currency
                THEN FromInt(cu.out.res.units) ELSE FromInt(1))

C31_LeverageIsRounded ==
    (/\ cu.fetched
     /\ cu.account_data.err = ""
     /\ cu.acct.mrn > 0 /\ cu.acct.mrn <= cu.acct.mrd)
    => 2 * Abs(cu.account_data.leverage * cu.acct.mrn - cu.acct.mrd) <= cu.acct.mrn

\* C32: once the order submission of a signal has returned successfully (the
\* broker accepted it, or the debug sentinel was returned), the signal is
\* answered 200 and no failure alert is sent: no later step of the request,
\* the account fetch for the ledger row and the ledger write included, turns
\* the outcome into an error response.
C32_NoErrorAfterOrderReturned ==
    \A r \in Reqs :
        req[r].order_response \in {"broker", "debug"} =>
            /\ req[r].err = ""
            /\ req[r].pc \in {"alert", "done"} => req[r].site = "ok"
            /\ req[r].pc = "done" => req[r].status = OK

\* The request came without access: its URL token is not an access token, or
\* its client address (X-Real-IP, else X-Forwarded-For) is missing or not in
\* TRADINGVIEW_IPS.
WithoutAccess(http) ==
    \/ ~http.token
    \/ http.real # "" /\ http.real \notin TRADINGVIEW_IPS
    \/ http.real = "" /\ http.fwd \notin TRADINGVIEW_IPS

\* C33: for a request without access no broker call is made, no ledger row is
\* written (and nothing else of the handler runs), and the request ends with
\* a 403 or 400 response.
C33_NoAccessNoEffect ==
    \A r \in Reqs :
        (req[r].pc # "idle" /\ WithoutAccess(req[r].http)) =>
            /\ req[r].pc = "done"
            /\ req[r].status \in {Forbidden, BadRequest}
            /\ req[r].calls = <<>>
            /\ ~req[r].row.written
            /\ req[r].invoked = <<>>
            /\ req[r].alert = ""
\* A well-formed open_long from an allowed address with a wrong token was
\* answered 403.
C33_Witness ==
    \E r \in Reqs :
        /\ req[r].pc = "done"
        /\ req[r].status = Forbidden
        /\ req[r].body.action = "open_long"
        /\ req[r].calls = <<>>
        /\ ~req[r].http.token
        /\ req[r].http.real = AllowedIp

\* C34: the precision snapshot is one file for both trading types: once a
\* request of one trading type has persisted it, a precision lookup of a
\* request of the other trading type takes its values from that snapshot and
\* does not fetch the instrument list.
C34_SnapshotSharedByModes ==
    \A r \in Reqs :
        (/\ req[r].body.action \in OpenActions
         /\ snapshot # NoSnapshot
         /\ snapshot.mode # req[r].body.trading_type)
        => /\ ~HasCall(req[r], {"instruments"})
           /\ req[r].pc \notin {"get_instruments", "write_precisions"}
           /\ req[r].payload # NoPayload => req[r].price_precisions = snapshot.names
\* A practice request fetched and persisted a list of one instrument; a later
\* live request built its order from that snapshot without fetching.
C34_Witness ==
    \E r \in Reqs :
        /\ req[r].body.trading_type = "live"
        /\ req[r].pc = "done" /\ req[r].status = OK
        /\ req[r].payload # NoPayload
        /\ ~HasCall(req[r], {"instruments"})
        /\ snapshot = Snapshot("practice", {"EUR_USD"})
        /\ req[r].price_precisions = {"EUR_USD"}

\* calculate_units returned a result for a call with a stop-loss, in
\* binary64 and in exact arithmetic.
FloatReturned == cu.floated /\ cu.fout.err = "" /\ Truthy(cu.sl)
ExactReturned == cu.returned /\ cu.out.err = "" /\ Truthy(cu.sl)
\* risk_percent * (1 + 2^-50): the requested percentage and the rounding
\* error that the float operations of lines 405-436 can add to it.
WithRounding(risk_percent) ==
    Float(BigAdd(BigShl(BigFromInt(risk_percent), MantissaBits - 3), BigFromInt(risk_percent)),
          0 - (MantissaBits - 3))

\* C35 as stated: whenever calculate_units returns a result with a stop-loss
\* given, the risk percentage it reports is greater than 0 and does not
\* exceed the requested risk_percent.
C35_RiskWithinRequested ==
    FloatReturned =>
        /\ FloatCmp(cu.fout.risk, FloatZero) > 0
        /\ FloatCmp(cu.fout.risk, FloatFromInt(cu.risk_percent)) <= 0
\* C35: whenever calculate_units returns a result with a stop-loss given, the
\* risk percentage it reports is greater than 0 and exceeds the requested
\* risk_percent by no more than the rounding error of the float arithmetic
\* (a relative 2^-50); computed exactly, the risk of the truncated unit count
\* is greater than 0 and never exceeds risk_percent.
C35_RiskWithinRequestedUpToRounding ==
    /\ FloatReturned =>
          /\ FloatCmp(cu.fout.risk, FloatZero) > 0
          /\ FloatCmp(cu.fout.risk, WithRounding(cu.risk_percent)) <= 0
    /\ ExactReturned =>
          /\ cu.out.res.risk.n > 0
          /\ cu.out.res.risk.n <= cu.risk_percent * cu.out.res.risk.d
\* A 5000 GBP account at a rate of 1.2731 risks 100 percent on EUR_USD with a
\* stop 232 ticks away: 274375 units, exactly 100 percent, and a reported
\* risk above 100.
C35_Witness ==
    /\ FloatReturned /\ ExactReturned
    /\ cu.instrument = "EUR_USD" /\ cu.sl = EntryPrice - 232
    /\ cu.risk_percent = CalcDefaultRiskPercent
    /\ cu.fout.units = 274375 /\ cu.out.res.units = 274375
    /\ cu.out.res.risk = FromInt(100)
    /\ FloatCmp(cu.fout.risk, FloatFromInt(cu.risk_percent)) > 0

====
